---------------------------- MODULE Spec2Model ----------------------------
(***************************************************************************)
(* A model of the ENTSO-E day-ahead price retriever (entso_py_retriever.py)*)
(* as a state machine: main's reading of the command line, the chunked     *)
(* retrieval loop, the per-country pipeline (retrieve, convert, aggregate, *)
(* export) and main's loop over the requested countries.  Besides the run  *)
(* of main (Spec), the functions are also run on their own: SpecArgs,      *)
(* SpecChunks (FairSpecChunks with the fairness of sequential code),       *)
(* SpecConvert, SpecMetrics and SpecAggregate.  SpecRunner is the run of   *)
(* the interactive runner (run_entsoe_py.py) around main, and SpecAnalysis *)
(* the pattern analysis (price_pattern_analysis.py) of a raw file.         *)
(*                                                                         *)
(* Time is counted in whole hours since an epoch, in UTC.  A timestamp of  *)
(* a DataFrame row is an instant together with the UTC offset of the       *)
(* representation it is rendered in (pandas' tz-aware timestamps).         *)
(***************************************************************************)
EXTENDS Integers, Sequences, FiniteSets, TLC

VARIABLES
    \* ---- the remote price source (entsoe-py client and the platform)
    inclusive_end,   \* whether a response includes an observation at the range end
    resolution,      \* spacing in hours of the observations the remote publishes
    remote_tz,       \* the representation of the timestamps of a series:
                     \* "UTC", "local" (the country's zone), "naive" (no zone)
                     \* or the name of one zone used for every country
    faults,          \* how many requests have not returned data so far
    \* ---- the run's parameters
    argv,            \* the command line: --api-key, --countries, --start-date,
                     \* --end-date and --years
    countries,       \* the validated country list (get_countries)
    start_date,      \* start of the requested range
    end_date,        \* end of the requested range
    chunk_days,      \* chunk span passed to retrieve_data_in_chunks
    use_local_time,  \* --local-time
    create_combined, \* --combined
    now,             \* datetime.now() of the run
    caller,          \* "main": the run; otherwise the function called on its own
    \* ---- control
    pc,              \* the position of the single thread of control
    idx,             \* main's loop over countries: index of the current one
    \* ---- retrieve_data_in_chunks' frame
    current_start,
    dfs,
    \* ---- process_country_data's frame
    df,
    daily_metrics,
    \* ---- main's frame and the file system
    all_metrics,
    all_raw_data,
    files,
    \* ---- observation of the run (what was requested, slept, processed)
    log,
    \* ---- the pattern analysis: the view computed and what it returned
    analysis

vars == <<inclusive_end, resolution, remote_tz, faults, argv, countries,
          start_date, end_date, chunk_days, use_local_time, create_combined, now,
          caller, pc, idx,
          current_start, dfs, df, daily_metrics, all_metrics, all_raw_data,
          files, log, analysis>>

\* What no step changes once main has read its arguments: the remote's
\* behaviour and the arguments
params == <<inclusive_end, resolution, remote_tz, argv, countries, start_date,
            end_date, chunk_days, use_local_time, create_combined, now, caller>>

---------------------------------------------------------------------------
(* Bounds of the model: the longest range of a direct call in days, the    *)
(* largest chunk span besides the default, the number of requests that may *)
(* fail in one run, the longest series given to the aggregation, the       *)
(* number of conversions applied in a row to one series, the number of     *)
(* codes in --countries and the largest value of --years.                  *)

MaxSpanDays == 3
MaxChunkDays == 2
MaxFaults == 2
MaxSeriesDays == 4
MaxConversions == 2
MaxCodes == 2
MaxYears == 2
MaxObservations == 3

(* Program constants *)

HoursPerDay == 24
DefaultChunkDays == 30
DaysPerYear == 365

Min(a, b) == IF a < b THEN a ELSE b

\* a / b rounded to the nearest integer, for b > 0
RoundDiv(a, b) == (2 * a + b) \div (2 * b)

---------------------------------------------------------------------------
(* Country table and time zones *)

COUNTRY_CODES == {"NL", "GB"}

COUNTRY_TIMEZONES(c) ==
    CASE c = "NL" -> "Europe/Amsterdam"
      [] c = "GB" -> "Europe/London"
      [] OTHER    -> "UTC"

\* The model's calendar: summer time begins at 01:00 UTC of day 1 and ends
\* at 01:00 UTC of day 3, so local day 1 has 23 hours and local day 3 has 25.
DstStart == 1 * HoursPerDay + 1
DstEnd == 3 * HoursPerDay + 1

InDst(t) == DstStart <= t /\ t < DstEnd

\* UTC offset, in hours, of time zone tz at instant t.
UtcOffset(tz, t) ==
    CASE tz = "Europe/Amsterdam" -> IF InDst(t) THEN 2 ELSE 1
      [] tz = "Europe/London"    -> IF InDst(t) THEN 1 ELSE 0
      [] OTHER                   -> 0

\* strftime('%Z') of an instant in time zone tz
TzAbbr(tz, t) ==
    CASE tz = "Europe/Amsterdam" -> IF InDst(t) THEN "CEST" ELSE "CET"
      [] tz = "Europe/London"    -> IF InDst(t) THEN "BST" ELSE "GMT"
      [] OTHER                   -> "UTC"

\* str.lower() of a country code
Lower(c) ==
    CASE c = "NL" -> "nl"
      [] c = "GB" -> "gb"
      [] OTHER    -> c

\* The order of country codes as strings
CountryRank(c) == IF c = "GB" THEN 1 ELSE 2

---------------------------------------------------------------------------
(* DataFrames: the set of column names and the sequence of rows.  A row has *)
(* every field; a field whose column is absent keeps its default.           *)

EmptyFrame == [cols |-> {}, rows |-> <<>>]

IsEmpty(frame) == frame.rows = <<>>

\* A row: the timestamp is the instant `datetime` rendered in time zone `tz`
\* at UTC offset `offset` (tz = "naive": no zone, the wall clock is the value).
Row(t, tz, price, c) ==
    [datetime |-> t, tz |-> tz, offset |-> UtcOffset(tz, t), price |-> price,
     country |-> c, timezone |-> "", date |-> 0]

RowSet(rows) == {rows[k] : k \in 1..Len(rows)}

RECURSIVE ConcatRows(_)
ConcatRows(frames) ==
    IF frames = <<>> THEN <<>>
    ELSE Head(frames).rows \o ConcatRows(Tail(frames))

\* A concatenation that keeps the first DataFrame only (a faulty variant)
ConcatFirstOnly(frames) == Head(frames)

\* pd.concat(dfs).reset_index(drop=True)
Concat(frames) ==
    [cols |-> UNION {frames[i].cols : i \in 1..Len(frames)},
     rows |-> ConcatRows(frames)]

---------------------------------------------------------------------------
(* The remote price source.  A request returns data, reports that there is *)
(* none, or fails with a non-transient or a transient error; the client     *)
(* raises an exception in the last three cases.  Whether the observation at *)
(* the end of the range is returned is the remote's choice.                 *)

Outcomes == {"data", "nodata", "error", "transient"}

\* The observations the remote holds for country c in the range from s to e:
\* one per published instant (a multiple of the resolution), in time order.
RemotePrice(c, t) == ((t * 7 + (IF c = "NL" THEN 0 ELSE 5)) % 13) - 4

RemoteSeries(c, s, e, incl, res) ==
    LET last == IF incl THEN e ELSE e - 1
        k0   == (s + res - 1) \div res
        k1   == last \div res
        tz   == CASE remote_tz = "local" -> COUNTRY_TIMEZONES(c)
                  [] OTHER               -> remote_tz
    IN  IF k1 < k0 THEN <<>>
        ELSE [i \in 1..(k1 - k0 + 1) |->
                 Row((k0 + i - 1) * res, tz, RemotePrice(c, (k0 + i - 1) * res), c)]

\* retrieve_day_ahead_prices: the Series as a DataFrame with the columns
\* datetime, price and country, or an empty DataFrame when the client raises.
RetrieveDayAheadPrices(c, s, e, outcome) ==
    IF outcome = "data"
    THEN [cols |-> {"datetime", "price", "country"},
          rows |-> RemoteSeries(c, s, e, inclusive_end, resolution)]
    ELSE EmptyFrame

---------------------------------------------------------------------------
(* retrieve_data_in_chunks *)

\* A loop condition that also admits current_start = end_date (a faulty variant)
LoopConditionInclusive(cs) == cs <= end_date

\* while current_start < end_date
LoopCondition(cs) == cs < end_date

\* A chunk end that is not cut at end_date (a faulty variant)
ChunkEndNoClamp(cs) == cs + chunk_days * HoursPerDay

\* current_end = min(current_start + timedelta(days=chunk_days), end_date)
ChunkEnd(cs) == Min(cs + chunk_days * HoursPerDay, end_date)

\* A loop that requests the same chunk again after a transient error (a variant)
NextStartRetrying(cs, current_end, outcome) ==
    IF outcome = "transient" THEN cs ELSE current_end

\* A loop that gives up the rest of the range after an error (a variant)
NextStartFailFast(cs, current_end, outcome) ==
    IF outcome = "error" THEN end_date ELSE current_end
\* A loop that stays on the chunk whose request failed with an error
\* (a variant)
NextStartKeepingFailedChunk(cs, current_end, outcome) ==
    IF outcome = "error" THEN cs ELSE current_end

\* current_start = current_end, whatever the request returned
NextStart(cs, current_end, outcome) == current_end

Event(kind, s, e, outcome) ==
    [kind |-> kind, call |-> idx,
     country |-> IF idx <= Len(countries) THEN countries[idx] ELSE "combined",
     start |-> s, end |-> e, outcome |-> outcome]

\* One iteration of the while loop up to the assignment of current_start:
\* the request for the chunk and the append of a non-empty result.
RequestChunk ==
    /\ pc = "chunk"
    /\ LoopCondition(current_start)
    /\ \E outcome \in Outcomes :
          /\ outcome # "data" => faults < MaxFaults
          /\ LET current_end == ChunkEnd(current_start)
                 got == RetrieveDayAheadPrices(countries[idx], current_start,
                                               current_end, outcome)
             IN  /\ dfs' = IF ~IsEmpty(got) THEN Append(dfs, got) ELSE dfs
                 /\ current_start' = NextStart(current_start, current_end, outcome)
                 /\ log' = Append(log, Event("request", current_start,
                                              current_end, outcome))
          /\ faults' = IF outcome = "data" THEN faults ELSE faults + 1
    /\ pc' = "sleep"
    /\ UNCHANGED <<analysis, params, idx, df, daily_metrics, all_metrics, all_raw_data,
                   files>>

\* A delay that is skipped after the last chunk (a variant)
SleepBetweenChunksOnly ==
    /\ pc = "sleep"
    /\ log' = IF current_start < end_date
              THEN Append(log, Event("sleep", current_start, current_start, "-"))
              ELSE log
    /\ pc' = "chunk"
    /\ UNCHANGED <<analysis, params, faults, idx, current_start, dfs, df, daily_metrics,
                   all_metrics, all_raw_data, files>>

\* time.sleep(1), the last statement of the loop body
Sleep ==
    /\ pc = "sleep"
    /\ log' = Append(log, Event("sleep", current_start, current_start, "-"))
    /\ pc' = "chunk"
    /\ UNCHANGED <<analysis, params, faults, idx, current_start, dfs, df, daily_metrics,
                   all_metrics, all_raw_data, files>>

\* A return that drops every chunk when one request failed with an error
\* (a variant)
ReturnChunksNothingAfterError ==
    /\ pc = "chunk"
    /\ ~LoopCondition(current_start)
    /\ df' = IF dfs # <<>> /\ ~(\E k \in 1..Len(log) :
                                  /\ log[k].call = idx
                                  /\ log[k].outcome = "error")
             THEN Concat(dfs)
             ELSE EmptyFrame
    /\ pc' = IF caller = "direct" THEN "returned" ELSE "process"
    /\ UNCHANGED <<analysis, params, faults, idx, current_start, dfs, daily_metrics,
                   all_metrics, all_raw_data, files, log>>

\* The loop's exit and the return of the combined DataFrame
ReturnChunks ==
    /\ pc = "chunk"
    /\ ~LoopCondition(current_start)
    /\ df' = IF dfs # <<>> THEN Concat(dfs) ELSE EmptyFrame
    /\ pc' = IF caller = "direct" THEN "returned" ELSE "process"
    /\ UNCHANGED <<analysis, params, faults, idx, current_start, dfs, daily_metrics,
                   all_metrics, all_raw_data, files, log>>

---------------------------------------------------------------------------
(* convert_to_local_timezone *)

\* A country code that COUNTRY_TIMEZONES has no entry for
UnlistedCountry == "XX"

\* A conversion with the zone's standard offset all year (a faulty variant)
ConvertToLocalTimezoneFixedOffset(frame, c) ==
    IF IsEmpty(frame) THEN frame
    ELSE LET timezone == COUNTRY_TIMEZONES(c)
             Local(r) == [r EXCEPT !.tz = timezone,
                                   !.offset = UtcOffset(timezone, 0),
                                   !.timezone = timezone]
         IN  [cols |-> frame.cols \cup {"timezone"},
              rows |-> [k \in 1..Len(frame.rows) |-> Local(frame.rows[k])]]

\* A conversion that localizes a column without a time zone to the country's
\* zone instead of UTC: the wall clock is kept, the instant moves (a faulty
\* variant)
ConvertToLocalTimezoneLocalizing(frame, c) ==
    IF IsEmpty(frame) THEN frame
    ELSE LET timezone == COUNTRY_TIMEZONES(c)
             Local(r) ==
                 LET t == IF r.tz = "naive"
                          THEN r.datetime - UtcOffset(timezone, r.datetime)
                          ELSE r.datetime
                 IN  [r EXCEPT !.datetime = t, !.tz = timezone,
                               !.offset = UtcOffset(timezone, t),
                               !.timezone = timezone]
         IN  [cols |-> frame.cols \cup {"timezone"},
              rows |-> [k \in 1..Len(frame.rows) |-> Local(frame.rows[k])]]

ConvertToLocalTimezone(frame, c) ==
    IF IsEmpty(frame) THEN frame
    ELSE LET timezone == COUNTRY_TIMEZONES(c)
             \* tz_localize('UTC') of a column without a time zone
             Aware(r) == IF r.tz = "naive"
                         THEN [r EXCEPT !.tz = "UTC", !.offset = 0]
                         ELSE r
             \* tz_convert(timezone): the same instant, rendered in timezone
             Local(r) == [r EXCEPT !.tz = timezone,
                                   !.offset = UtcOffset(timezone, r.datetime),
                                   !.timezone = timezone]
         IN  [cols |-> frame.cols \cup {"timezone"},
              rows |-> [k \in 1..Len(frame.rows) |-> Local(Aware(frame.rows[k]))]]

---------------------------------------------------------------------------
(* calculate_daily_metrics *)

\* The UTC date of the instant, whatever the rendering (a faulty variant)
DateOfUtc(r) == r.datetime \div HoursPerDay

\* .dt.date: the calendar date of the timestamp as rendered, in days
DateOf(r) == (r.datetime + r.offset) \div HoursPerDay

\* df['date'] = df['datetime'].dt.date, on the caller's DataFrame
WithDateColumn(frame) ==
    [cols |-> frame.cols \cup {"date"},
     rows |-> [k \in 1..Len(frame.rows) |->
                 [frame.rows[k] EXCEPT !.date = DateOf(frame.rows[k])]]]

GroupKeys(rows) == {<<r.date, r.country>> : r \in RowSet(rows)}

Group(rows, key) ==
    SelectSeq(rows, LAMBDA r : r.date = key[1] /\ r.country = key[2])

KeyLess(a, b) ==
    \/ a[1] < b[1]
    \/ a[1] = b[1] /\ CountryRank(a[2]) < CountryRank(b[2])

\* groupby sorts the group keys
RECURSIVE SortKeys(_)
SortKeys(S) ==
    IF S = {} THEN <<>>
    ELSE LET first == CHOOSE x \in S : \A y \in S \ {x} : KeyLess(x, y)
         IN  <<first>> \o SortKeys(S \ {first})

RECURSIVE SumPrices(_)
SumPrices(rows) ==
    IF rows = <<>> THEN 0 ELSE Head(rows).price + SumPrices(Tail(rows))

\* A minimum that leaves negative prices out (a faulty variant)
MinPriceNonNegative(rows) ==
    LET P == {r.price : r \in RowSet(rows)}
        N == {p \in P : p >= 0}
    IN  IF N = {} THEN 0 ELSE CHOOSE p \in N : \A q \in N : p <= q

\* grouped['price'].min(), .max()
MinPrice(rows) ==
    CHOOSE p \in {r.price : r \in RowSet(rows)} :
        \A r \in RowSet(rows) : p <= r.price

MaxPrice(rows) ==
    CHOOSE p \in {r.price : r \in RowSet(rows)} :
        \A r \in RowSet(rows) : p >= r.price

\* The mean of a group, kept exact as the sum of its prices over their number
MeanPrice(rows) == [sum |-> SumPrices(rows), n |-> Len(rows)]

\* df.groupby('country')['timezone'].first()
FirstTimezone(rows, c) ==
    SelectSeq(rows, LAMBDA r : r.country = c)[1].timezone

MetricRow(rows, key, has_timezone) ==
    LET g == Group(rows, key)
    IN  [date |-> key[1], country |-> key[2],
         min_price |-> MinPrice(g), max_price |-> MaxPrice(g),
         weighted_avg |-> MeanPrice(g),
         timezone |-> IF has_timezone THEN FirstTimezone(rows, key[2]) ELSE ""]

\* The DataFrame calculate_daily_metrics returns for a DataFrame that already
\* has its date column
DailyMetrics(dated) ==
    LET keys == SortKeys(GroupKeys(dated.rows))
        has_timezone == "timezone" \in dated.cols
    IN  [cols |-> {"date", "country", "min_price", "max_price", "weighted_avg"}
                    \cup (IF has_timezone THEN {"timezone"} ELSE {}),
         rows |-> [k \in 1..Len(keys) |->
                     MetricRow(dated.rows, keys[k], has_timezone)]]

---------------------------------------------------------------------------
(* export_to_csv and the names of the files *)

\* get_timezone_suffix
TimezoneSuffix(c) ==
    IF use_local_time
    THEN <<"local", TzAbbr(COUNTRY_TIMEZONES(c), now)>>
    ELSE <<"utc">>

MetricsFilename(c) == <<Lower(c), "price_metrics", TimezoneSuffix(c)>>

RawFilename(c) == <<Lower(c), "raw_prices", TimezoneSuffix(c)>>

CombinedSuffix == IF use_local_time THEN <<"local_mixed">> ELSE <<"utc">>

\* df.to_csv(filename): the file is created or replaced as a whole
WriteFile(fs, name, frame) ==
    [n \in (DOMAIN fs) \cup {name} |-> IF n = name THEN frame ELSE fs[n]]

\* The output directory before the run
NoFiles == <<>>

\* No view of the pattern analysis has been computed
NoAnalysis == [view |-> "none", raised |-> FALSE]

---------------------------------------------------------------------------
(* process_country_data and main *)

\* for country_code in countries: the call of process_country_data and, in
\* it, the entry of retrieve_data_in_chunks
BeginCountry ==
    /\ pc = "main_loop"
    /\ idx <= Len(countries)
    /\ current_start' = start_date
    /\ dfs' = <<>>
    /\ df' = EmptyFrame
    /\ daily_metrics' = EmptyFrame
    /\ pc' = "chunk"
    /\ UNCHANGED <<analysis, params, faults, idx, all_metrics, all_raw_data, files, log>>

\* if df.empty: return pd.DataFrame(), pd.DataFrame()
SkipCountry ==
    /\ pc = "process"
    /\ IsEmpty(df)
    /\ df' = EmptyFrame
    /\ daily_metrics' = EmptyFrame
    /\ log' = Append(log, Event("skipped", 0, 0, "-"))
    /\ pc' = "collect"
    /\ UNCHANGED <<analysis, params, faults, idx, current_start, dfs, all_metrics,
                   all_raw_data, files>>

\* if use_local_time: df = convert_to_local_timezone(df, country_code)
Convert ==
    /\ pc = "process"
    /\ ~IsEmpty(df)
    /\ df' = IF use_local_time
             THEN ConvertToLocalTimezone(df, countries[idx])
             ELSE df
    /\ pc' = "metrics"
    /\ UNCHANGED <<analysis, params, faults, idx, current_start, dfs, daily_metrics,
                   all_metrics, all_raw_data, files, log>>
\* An aggregation that works on a copy and leaves the caller's DataFrame as
\* it was (a variant)
CalculateDailyMetricsOnCopy ==
    /\ pc = "metrics"
    /\ daily_metrics' = IF IsEmpty(df) THEN EmptyFrame
                        ELSE DailyMetrics(WithDateColumn(df))
    /\ pc' = "export_metrics"
    /\ UNCHANGED <<analysis, params, faults, idx, current_start, dfs, df, all_metrics,
                   all_raw_data, files, log>>

\* daily_metrics = calculate_daily_metrics(df), which adds the date column
\* to df itself
CalculateDailyMetrics ==
    /\ pc = "metrics"
    /\ IF IsEmpty(df)
       THEN /\ daily_metrics' = EmptyFrame
            /\ df' = df
       ELSE /\ df' = WithDateColumn(df)
            /\ daily_metrics' = DailyMetrics(WithDateColumn(df))
    /\ pc' = "export_metrics"
    /\ UNCHANGED <<analysis, params, faults, idx, current_start, dfs, all_metrics,
                   all_raw_data, files, log>>

\* An export whose exception is handled per country, the loop going on
\* (a variant)
ExportMetricsHandledPerCountry ==
    /\ pc = "export_metrics"
    /\ \E written \in BOOLEAN :
          IF written
          THEN /\ files' = WriteFile(files, MetricsFilename(countries[idx]),
                                     daily_metrics)
               /\ log' = Append(log, Event("metrics_written", 0, 0, "-"))
               /\ pc' = "export_raw"
          ELSE /\ files' = files
               /\ log' = Append(log, Event("export_failed", 0, 0, "-"))
               /\ pc' = "collect"
    /\ UNCHANGED <<analysis, params, faults, idx, current_start, dfs, df, daily_metrics,
                   all_metrics, all_raw_data>>

\* export_to_csv(daily_metrics, metrics_filename); an exception of to_csv
\* reaches main's handler, which ends the run
ExportMetrics ==
    /\ pc = "export_metrics"
    /\ \E written \in BOOLEAN :
          IF written
          THEN /\ files' = WriteFile(files, MetricsFilename(countries[idx]),
                                     daily_metrics)
               /\ log' = Append(log, Event("metrics_written", 0, 0, "-"))
               /\ pc' = "export_raw"
          ELSE /\ files' = files
               /\ log' = Append(log, Event("export_failed", 0, 0, "-"))
               /\ pc' = "aborted"
    /\ UNCHANGED <<analysis, params, faults, idx, current_start, dfs, df, daily_metrics,
                   all_metrics, all_raw_data>>

\* export_to_csv(df, raw_filename)
ExportRaw ==
    /\ pc = "export_raw"
    /\ \E written \in BOOLEAN :
          IF written
          THEN /\ files' = WriteFile(files, RawFilename(countries[idx]), df)
               /\ log' = Append(log, Event("raw_written", 0, 0, "-"))
               /\ pc' = "collect"
          ELSE /\ files' = files
               /\ log' = Append(log, Event("export_failed", 0, 0, "-"))
               /\ pc' = "aborted"
    /\ UNCHANGED <<analysis, params, faults, idx, current_start, dfs, df, daily_metrics,
                   all_metrics, all_raw_data>>

\* Back in main's loop: the non-empty results are kept for the combined files
Collect ==
    /\ pc = "collect"
    /\ all_metrics' = IF ~IsEmpty(daily_metrics)
                      THEN Append(all_metrics, daily_metrics)
                      ELSE all_metrics
    /\ all_raw_data' = IF ~IsEmpty(df) THEN Append(all_raw_data, df)
                       ELSE all_raw_data
    /\ idx' = idx + 1
    /\ pc' = "main_loop"
    /\ UNCHANGED <<analysis, params, faults, current_start, dfs, df, daily_metrics,
                   files, log>>
\* A loop end that writes the combined files only when more than one country
\* gave data (a variant)
EndLoopCountingCollected ==
    /\ pc = "main_loop"
    /\ idx > Len(countries)
    /\ pc' = IF create_combined /\ Len(all_metrics) > 1
             THEN "combine_metrics"
             ELSE "done"
    /\ UNCHANGED <<analysis, params, faults, idx, current_start, dfs, df, daily_metrics,
                   all_metrics, all_raw_data, files, log>>

\* The loop is over: if create_combined and len(countries) > 1
EndLoop ==
    /\ pc = "main_loop"
    /\ idx > Len(countries)
    /\ pc' = IF create_combined /\ Len(countries) > 1
             THEN "combine_metrics"
             ELSE "done"
    /\ UNCHANGED <<analysis, params, faults, idx, current_start, dfs, df, daily_metrics,
                   all_metrics, all_raw_data, files, log>>

\* if all_metrics: export the concatenated metrics
CombineMetrics ==
    /\ pc = "combine_metrics"
    /\ \E written \in BOOLEAN :
          IF all_metrics = <<>>
          THEN /\ written
               /\ files' = files
               /\ log' = log
               /\ pc' = "combine_raw"
          ELSE IF written
          THEN /\ files' = WriteFile(files,
                              <<"combined", "price_metrics", CombinedSuffix>>,
                              Concat(all_metrics))
               /\ log' = log
               /\ pc' = "combine_raw"
          ELSE /\ files' = files
               /\ log' = Append(log, Event("export_failed", 0, 0, "-"))
               /\ pc' = "aborted"
    /\ UNCHANGED <<analysis, params, faults, idx, current_start, dfs, df, daily_metrics,
                   all_metrics, all_raw_data>>

\* if all_raw_data: export the concatenated raw data
CombineRaw ==
    /\ pc = "combine_raw"
    /\ \E written \in BOOLEAN :
          IF all_raw_data = <<>>
          THEN /\ written
               /\ files' = files
               /\ log' = log
               /\ pc' = "done"
          ELSE IF written
          THEN /\ files' = WriteFile(files,
                              <<"combined", "raw_prices", CombinedSuffix>>,
                              Concat(all_raw_data))
               /\ log' = log
               /\ pc' = "done"
          ELSE /\ files' = files
               /\ log' = Append(log, Event("export_failed", 0, 0, "-"))
               /\ pc' = "aborted"
    /\ UNCHANGED <<analysis, params, faults, idx, current_start, dfs, df, daily_metrics,
                   all_metrics, all_raw_data>>

---------------------------------------------------------------------------
(* main's reading of the command line: get_api_key, get_countries and      *)
(* get_date_range.  A date argument is absent ("none"), unparseable        *)
(* ("bad") or a date (kind "date", value: its midnight in hours); --years  *)
(* is absent or an integer.                                                *)

Arg(kind, value) == [kind |-> kind, value |-> value]

\* A command line with a key and nothing else
NoArgs ==
    [api_key |-> TRUE, countries |-> [given |-> FALSE, codes |-> <<>>],
     start_date |-> Arg("none", 0), end_date |-> Arg("none", 0),
     years |-> Arg("none", 0)]

\* The variables that the reading of the command line leaves alone
others == <<inclusive_end, resolution, remote_tz, faults, argv, chunk_days,
           use_local_time, create_combined, now, caller, idx, current_start,
           dfs, df, daily_metrics, all_metrics, all_raw_data, files>>

\* sys.exit(1) in function `where`
ExitEvent(where) ==
    [kind |-> "exit", call |-> 0, country |-> "-", start |-> 0, end |-> 0,
     outcome |-> where]

\* api_key = get_api_key(): the key of --api-key or of the environment
GetApiKey ==
    /\ pc = "get_api_key"
    /\ IF argv.api_key
       THEN /\ pc' = "get_countries"
            /\ log' = log
       ELSE /\ pc' = "exit"
            /\ log' = Append(log, ExitEvent("get_api_key"))
    /\ UNCHANGED <<analysis, others, countries, start_date, end_date>>

\* country.strip().upper()
StripUpper(code) ==
    CASE code \in {"NL", "nl", " nl "} -> "NL"
      [] code \in {"GB", "gb"}         -> "GB"
      [] code \in {"XX", "xx"}         -> "XX"
      [] OTHER                         -> code

\* A validation that compares the codes as they were typed (a faulty variant)
ValidCountriesAsTyped(codes) == SelectSeq(codes, LAMBDA c : c \in COUNTRY_CODES)

\* The codes of --countries that are in COUNTRY_CODES, in the order given
ValidCountries(codes) ==
    SelectSeq([k \in 1..Len(codes) |-> StripUpper(codes[k])],
              LAMBDA c : c \in COUNTRY_CODES)

\* A get_countries that exits when any code is not in COUNTRY_CODES
\* (a variant)
GetCountriesRejectingUnknown ==
    /\ pc = "get_countries"
    /\ IF /\ argv.countries.given
          /\ Len(ValidCountries(argv.countries.codes)) = Len(argv.countries.codes)
       THEN /\ countries' = ValidCountries(argv.countries.codes)
            /\ pc' = "get_date_range"
            /\ log' = log
       ELSE /\ countries' = countries
            /\ pc' = "exit"
            /\ log' = Append(log, ExitEvent("get_countries"))
    /\ UNCHANGED <<analysis, others, start_date, end_date>>

\* countries = get_countries()
GetCountries ==
    /\ pc = "get_countries"
    /\ IF /\ argv.countries.given
          /\ ValidCountries(argv.countries.codes) # <<>>
       THEN /\ countries' = ValidCountries(argv.countries.codes)
            /\ pc' = "get_date_range"
            /\ log' = log
       ELSE /\ countries' = countries
            /\ pc' = "exit"
            /\ log' = Append(log, ExitEvent("get_countries"))
    /\ UNCHANGED <<analysis, others, start_date, end_date>>

\* A get_date_range that looks at --years before --start-date (a faulty
\* variant)
DateRangeYearsFirst(a, t) ==
    IF a.years.kind = "int" /\ a.years.value > 0
    THEN [ok |-> TRUE, start |-> t - a.years.value * DaysPerYear * HoursPerDay,
          end |-> t]
    ELSE IF a.start_date.kind = "date"
    THEN [ok |-> TRUE, start |-> a.start_date.value,
          end |-> IF a.end_date.kind = "date" THEN a.end_date.value ELSE t]
    ELSE [ok |-> FALSE, start |-> 0, end |-> 0]

\* get_date_range for the command line a at time t: the range returned, or
\* ok = FALSE when it exits
DateRange(a, t) ==
    CASE a.start_date.kind = "date" ->
           [ok |-> TRUE, start |-> a.start_date.value,
            end |-> IF a.end_date.kind = "date" THEN a.end_date.value ELSE t]
      [] a.start_date.kind = "bad" ->
           [ok |-> FALSE, start |-> 0, end |-> 0]
      [] OTHER ->
           IF a.years.kind = "int" /\ a.years.value # 0 /\ a.years.value > 0
           THEN [ok |-> TRUE,
                 start |-> t - a.years.value * DaysPerYear * HoursPerDay,
                 end |-> t]
           ELSE [ok |-> FALSE, start |-> 0, end |-> 0]

\* start_date, end_date = get_date_range()
GetDateRange ==
    /\ pc = "get_date_range"
    /\ LET range == DateRange(argv, now)
       IN  IF range.ok
           THEN /\ start_date' = range.start
                /\ end_date' = range.end
                /\ pc' = "main_loop"
                /\ log' = log
           ELSE /\ UNCHANGED <<start_date, end_date>>
                /\ pc' = "exit"
                /\ log' = Append(log, ExitEvent("get_date_range"))
    /\ UNCHANGED <<analysis, others, countries>>

\* The validation of the command line on its own
RawCodes == {"NL", "gb", " nl ", "XX", ""}

CodeLists == UNION {[1..n -> RawCodes] : n \in 1..MaxCodes}

InitArgs ==
    /\ inclusive_end = FALSE
    /\ resolution = 1
    /\ remote_tz = "UTC"
    /\ faults = 0
    /\ argv \in [api_key : BOOLEAN,
                  countries : {NoArgs.countries}
                                \cup [given : {TRUE}, codes : CodeLists],
                  start_date : {Arg("none", 0), Arg("bad", 0)}
                                 \cup {Arg("date", d * HoursPerDay) : d \in {0, 2}},
                  end_date : {Arg("none", 0), Arg("bad", 0)}
                               \cup {Arg("date", d * HoursPerDay) : d \in {0, 1}},
                  years : {Arg("none", 0)}
                            \cup {Arg("int", y) : y \in (0 - 1)..MaxYears}]
    /\ countries = <<>>
    /\ start_date = 0
    /\ end_date = 0
    /\ chunk_days = DefaultChunkDays
    /\ use_local_time = FALSE
    /\ create_combined = FALSE
    /\ now = HoursPerDay + 6
    /\ caller = "main"
    /\ pc = "get_api_key"
    /\ idx = 1
    /\ current_start = 0
    /\ dfs = <<>>
    /\ df = EmptyFrame
    /\ daily_metrics = EmptyFrame
    /\ all_metrics = <<>>
    /\ all_raw_data = <<>>
    /\ files = NoFiles
    /\ log = <<>>
    /\ analysis = NoAnalysis

NextArgs ==
    \/ GetApiKey
    \/ GetCountries
    \/ GetDateRange

SpecArgs == InitArgs /\ [][NextArgs]_vars

---------------------------------------------------------------------------
(* retrieve_data_in_chunks called on its own *)

StartDates == {0, 7}

Spans == {0 - 5, 0} \cup {(HoursPerDay \div 2) * k : k \in 1..(2 * MaxSpanDays)}

InitChunks ==
    /\ inclusive_end \in BOOLEAN
    /\ resolution = 1
    /\ remote_tz \in {"UTC", "local"}
    /\ faults = 0
    /\ argv = NoArgs
    /\ \E c \in COUNTRY_CODES : countries = <<c>>
    /\ start_date \in StartDates
    /\ \E span \in Spans : end_date = start_date + span
    /\ chunk_days \in (1..MaxChunkDays) \cup {DefaultChunkDays}
    /\ use_local_time = FALSE
    /\ create_combined = FALSE
    /\ now = end_date
    /\ caller = "direct"
    /\ pc = "chunk"
    /\ idx = 1
    /\ current_start = start_date
    /\ dfs = <<>>
    /\ df = EmptyFrame
    /\ daily_metrics = EmptyFrame
    /\ all_metrics = <<>>
    /\ all_raw_data = <<>>
    /\ files = NoFiles
    /\ log = <<>>
    /\ analysis = NoAnalysis

NextChunks ==
    \/ RequestChunk
    \/ Sleep
    \/ ReturnChunks

SpecChunks == InitChunks /\ [][NextChunks]_vars

\* The loop is sequential code: a request that was issued returns (with data,
\* without, or with an exception that is caught), time.sleep(1) returns, and
\* the next statement is executed.
FairSpecChunks == SpecChunks /\ WF_vars(NextChunks)

---------------------------------------------------------------------------
(* The conversion and the aggregation of process_country_data applied to a *)
(* given hourly series                                                     *)

SeriesSpans == {(HoursPerDay \div 2) * k : k \in 1..(2 * MaxSeriesDays)}

SeriesStarts == {0, HoursPerDay - 4}

InitMetrics ==
    /\ inclusive_end = FALSE
    /\ resolution = 1
    /\ remote_tz \in {"UTC", "local", "naive", "Europe/Amsterdam"}
    /\ faults = 0
    /\ argv = NoArgs
    /\ \E c \in COUNTRY_CODES : countries = <<c>>
    /\ start_date \in SeriesStarts
    /\ \E span \in SeriesSpans : end_date = start_date + span
    /\ chunk_days = DefaultChunkDays
    /\ use_local_time \in BOOLEAN
    /\ create_combined = FALSE
    /\ now = end_date
    /\ caller = "series"
    /\ pc = "process"
    /\ idx = 1
    /\ current_start = end_date
    /\ dfs = <<>>
    /\ df = RetrieveDayAheadPrices(countries[1], start_date, end_date, "data")
    /\ daily_metrics = EmptyFrame
    /\ all_metrics = <<>>
    /\ all_raw_data = <<>>
    /\ files = NoFiles
    /\ log = <<>>
    /\ analysis = NoAnalysis

NextMetrics ==
    \/ Convert
    \/ CalculateDailyMetrics

SpecMetrics == InitMetrics /\ [][NextMetrics]_vars

---------------------------------------------------------------------------
(* convert_to_local_timezone called on its own, several times in a row on  *)
(* one series: for a listed country it renders the series in the country's *)
(* zone, for a code without an entry in COUNTRY_TIMEZONES in UTC.          *)

\* One call: dfs keeps the argument of every call, log the country code
CallConvertToLocalTimezone ==
    /\ pc = "convert"
    /\ Len(log) < MaxConversions
    /\ \E c \in COUNTRY_CODES \cup {UnlistedCountry} :
          /\ df' = ConvertToLocalTimezone(df, c)
          /\ log' = Append(log, [kind |-> "convert", call |-> idx, country |-> c,
                                 start |-> 0, end |-> 0, outcome |-> "-"])
    /\ dfs' = Append(dfs, df)
    /\ UNCHANGED <<analysis, params, faults, pc, idx, current_start, daily_metrics,
                   all_metrics, all_raw_data, files>>

InitConvert ==
    /\ inclusive_end = FALSE
    /\ resolution = 1
    /\ remote_tz \in {"UTC", "local", "naive", "Europe/Amsterdam"}
    /\ faults = 0
    /\ argv = NoArgs
    /\ \E c \in COUNTRY_CODES : countries = <<c>>
    /\ start_date \in SeriesStarts
    /\ \E span \in SeriesSpans : end_date = start_date + span
    /\ chunk_days = DefaultChunkDays
    /\ use_local_time = TRUE
    /\ create_combined = FALSE
    /\ now = end_date
    /\ caller = "convert"
    /\ pc = "convert"
    /\ idx = 1
    /\ current_start = end_date
    /\ dfs = <<>>
    /\ df = RetrieveDayAheadPrices(countries[1], start_date, end_date, "data")
    /\ daily_metrics = EmptyFrame
    /\ all_metrics = <<>>
    /\ all_raw_data = <<>>
    /\ files = NoFiles
    /\ log = <<>>
    /\ analysis = NoAnalysis

NextConvert == CallConvertToLocalTimezone

SpecConvert == InitConvert /\ [][NextConvert]_vars

---------------------------------------------------------------------------
(* calculate_daily_metrics called on its own, on the series of one country *)
(* or on the concatenated series of two, converted to local time or not    *)

\* The series of every country of the list, one after the other
RECURSIVE SeriesOf(_)
SeriesOf(cs) ==
    IF cs = <<>> THEN <<>>
    ELSE LET got == RetrieveDayAheadPrices(Head(cs), start_date, end_date, "data")
         IN  <<IF use_local_time THEN ConvertToLocalTimezone(got, Head(cs))
               ELSE got>> \o SeriesOf(Tail(cs))

InitAggregate ==
    /\ inclusive_end = FALSE
    /\ resolution = 1
    /\ remote_tz \in {"UTC", "local"}
    /\ faults = 0
    /\ argv = NoArgs
    /\ countries \in {<<"NL">>, <<"GB">>, <<"NL", "GB">>, <<"GB", "NL">>}
    /\ start_date \in SeriesStarts
    /\ \E span \in SeriesSpans : end_date = start_date + span
    /\ chunk_days = DefaultChunkDays
    /\ use_local_time \in BOOLEAN
    /\ create_combined = FALSE
    /\ now = end_date
    /\ caller = "aggregate"
    /\ pc = "metrics"
    /\ idx = 1
    /\ current_start = end_date
    /\ dfs = <<>>
    /\ df = Concat(SeriesOf(countries))
    /\ daily_metrics = EmptyFrame
    /\ all_metrics = <<>>
    /\ all_raw_data = <<>>
    /\ files = NoFiles
    /\ log = <<>>
    /\ analysis = NoAnalysis

NextAggregate == CalculateDailyMetrics

SpecAggregate == InitAggregate /\ [][NextAggregate]_vars

---------------------------------------------------------------------------
(* The run of main *)

\* The values of --countries: lists of listed codes, a list with a code that
\* is not in COUNTRY_CODES, and a list of such codes only
CountryLists ==
    {<<"NL">>, <<"GB">>, <<"NL", "GB">>, <<"GB", "NL">>, <<"NL", "NL">>,
     <<"XX", "nl">>, <<"XX">>}

\* The remote publishes one observation every 23 hours in these runs
SparseResolution == HoursPerDay - 1

\* Ranges of one chunk and of two chunks of the default span, and an empty one
MainSpans ==
    {0, (DefaultChunkDays - 10) * HoursPerDay, (DefaultChunkDays + 15) * HoursPerDay}

\* The values of --start-date and --end-date: the ranges above from day 0, a
\* start one day after the end, an unparseable start, and no dates at all
MainDateArgs ==
    {<<Arg("date", 0), Arg("date", span)>> : span \in MainSpans}
      \cup {<<Arg("date", HoursPerDay), Arg("date", 0)>>,
            <<Arg("bad", 0), Arg("date", 0)>>,
            <<Arg("none", 0), Arg("none", 0)>>}

Init ==
    /\ inclusive_end = TRUE
    /\ resolution = SparseResolution
    /\ remote_tz \in {"UTC", "local"}
    /\ faults = 0
    /\ \E key \in BOOLEAN, dates \in MainDateArgs,
          cs \in {NoArgs.countries} \cup [given : {TRUE}, codes : CountryLists] :
          argv = [api_key |-> key, countries |-> cs, start_date |-> dates[1],
                  end_date |-> dates[2], years |-> Arg("none", 0)]
    /\ countries = <<>>
    /\ start_date = 0
    /\ end_date = 0
    /\ chunk_days = DefaultChunkDays
    /\ use_local_time \in BOOLEAN
    /\ create_combined \in BOOLEAN
    /\ now \in (IF use_local_time THEN {0, DstStart} ELSE {0})
    /\ caller = "main"
    /\ pc = "get_api_key"
    /\ idx = 1
    /\ current_start = start_date
    /\ dfs = <<>>
    /\ df = EmptyFrame
    /\ daily_metrics = EmptyFrame
    /\ all_metrics = <<>>
    /\ all_raw_data = <<>>
    /\ files = NoFiles
    /\ log = <<>>
    /\ analysis = NoAnalysis

Next ==
    \/ GetApiKey
    \/ GetCountries
    \/ GetDateRange
    \/ BeginCountry
    \/ RequestChunk
    \/ Sleep
    \/ ReturnChunks
    \/ SkipCountry
    \/ Convert
    \/ CalculateDailyMetrics
    \/ ExportMetrics
    \/ ExportRaw
    \/ Collect
    \/ EndLoop
    \/ CombineMetrics
    \/ CombineRaw

Spec == Init /\ [][Next]_vars

---------------------------------------------------------------------------
(* The runner, run_entsoe_py.main: it checks the command line, shows the   *)
(* header, asks for confirmation, runs the retriever's main and shows the  *)
(* footer.  A sys.exit of the retriever ends the runner as well.           *)

RunnerEvent(kind, outcome) ==
    [kind |-> kind, call |-> 0, country |-> "-", start |-> 0, end |-> 0,
     outcome |-> outcome]

\* if not args.countries ... if not args.years and not args.start_date ...
RunnerCheckArgs ==
    /\ pc = "runner"
    /\ IF \/ ~argv.countries.given
          \/ argv.countries.codes = <<>>
          \/ /\ ~(argv.years.kind = "int" /\ argv.years.value # 0)
             /\ argv.start_date.kind = "none"
       THEN /\ pc' = "runner_exit"
            /\ log' = Append(log, ExitEvent("runner"))
       ELSE /\ pc' = "runner_get_countries"
            /\ log' = log
    /\ UNCHANGED <<analysis, others, countries, start_date, end_date>>

\* countries = get_countries(), then the flags and print_header
RunnerGetCountries ==
    /\ pc = "runner_get_countries"
    /\ IF ValidCountries(argv.countries.codes) # <<>>
       THEN /\ countries' = ValidCountries(argv.countries.codes)
            /\ pc' = "prompt"
            /\ log' = log
       ELSE /\ countries' = countries
            /\ pc' = "runner_exit"
            /\ log' = Append(log, ExitEvent("get_countries"))
    /\ UNCHANGED <<analysis, others, start_date, end_date>>

\* What the user may type at the prompt
Responses == {"y", "Y", "n", "N", "yes", ""}

\* response.lower()
LowerResponse(response) ==
    CASE response = "Y" -> "y"
      [] response = "N" -> "n"
      [] OTHER          -> response

\* A prompt that goes on unless the answer is 'n' (a faulty variant)
PromptProceedingUnlessNo ==
    /\ pc = "prompt"
    /\ \E response \in Responses :
          /\ log' = Append(log, RunnerEvent("prompt", response))
          /\ pc' = IF LowerResponse(response) = "n"
                   THEN "runner_returned"
                   ELSE "get_api_key"
    /\ UNCHANGED <<analysis, others, countries, start_date, end_date>>

\* response = input(...); if response.lower() != 'y': return; otherwise
\* run_data_retriever() is entered
Prompt ==
    /\ pc = "prompt"
    /\ \E response \in Responses :
          /\ log' = Append(log, RunnerEvent("prompt", response))
          /\ pc' = IF LowerResponse(response) # "y"
                   THEN "runner_returned"
                   ELSE "get_api_key"
    /\ UNCHANGED <<analysis, others, countries, start_date, end_date>>

\* run_data_retriever() has returned, normally or after its handler caught
\* an exception: print_footer(countries, combined, use_local_time)
PrintFooter ==
    /\ caller = "runner"
    /\ pc \in {"done", "aborted"}
    /\ log' = Append(log, RunnerEvent("footer", pc))
    /\ pc' = "runner_returned"
    /\ UNCHANGED <<analysis, others, countries, start_date, end_date>>

InitRunner ==
    /\ inclusive_end = TRUE
    /\ resolution = SparseResolution
    /\ remote_tz = "local"
    /\ faults = 0
    /\ \E key \in BOOLEAN, dates \in MainDateArgs,
          cs \in {NoArgs.countries} \cup [given : {TRUE}, codes : CountryLists] :
          argv = [api_key |-> key, countries |-> cs, start_date |-> dates[1],
                  end_date |-> dates[2], years |-> Arg("none", 0)]
    /\ countries = <<>>
    /\ start_date = 0
    /\ end_date = 0
    /\ chunk_days = DefaultChunkDays
    /\ use_local_time \in BOOLEAN
    /\ create_combined \in BOOLEAN
    /\ now = 0
    /\ caller = "runner"
    /\ pc = "runner"
    /\ idx = 1
    /\ current_start = start_date
    /\ dfs = <<>>
    /\ df = EmptyFrame
    /\ daily_metrics = EmptyFrame
    /\ all_metrics = <<>>
    /\ all_raw_data = <<>>
    /\ files = NoFiles
    /\ log = <<>>
    /\ analysis = NoAnalysis

NextRunner ==
    \/ RunnerCheckArgs
    \/ RunnerGetCountries
    \/ Prompt
    \/ Next
    \/ PrintFooter

SpecRunner == InitRunner /\ [][NextRunner]_vars

---------------------------------------------------------------------------
(* The pattern analysis, analysis/price_pattern_analysis.py: the raw file  *)
(* of one country is loaded and prepared, and a view is computed from it.  *)
(* Day 0 of the calendar is Saturday 26 March 2022, the day before the      *)
(* start of summer time.  Statistics that the code rounds to two decimals   *)
(* are kept in hundredths.                                                  *)

\* .dt.dayofweek of a day: 0 = Monday, 6 = Sunday
DayOfWeek(day) == (day + 5) % 7

\* .dt.month of a day
MonthOf(day) == IF day <= 5 THEN 3 ELSE 4

\* df['month'].map({12: 'Winter', 1: 'Winter', ...})
SeasonOf(month) ==
    CASE month \in {12, 1, 2}  -> "Winter"
      [] month \in {3, 4, 5}   -> "Spring"
      [] month \in {6, 7, 8}   -> "Summer"
      [] month \in {9, 10, 11} -> "Autumn"

\* pd.to_datetime(df['datetime'], utc=True) and the derived columns: the
\* timestamp becomes the same instant in UTC, and the keys are read off it;
\* the date column is kept as the file has it
PreparedRow(r) ==
    LET day == r.datetime \div HoursPerDay
    IN  [datetime |-> r.datetime, tz |-> "UTC", offset |-> 0,
         price |-> r.price, country |-> r.country, timezone |-> r.timezone,
         date |-> r.date,
         hour |-> r.datetime % HoursPerDay,
         month |-> MonthOf(day),
         day_of_week |-> DayOfWeek(day),
         season |-> SeasonOf(MonthOf(day)),
         is_weekend |-> DayOfWeek(day) \in {5, 6},
         year |-> 2022]

\* The file that the analysis reads
AnalysedFile == RawFilename("NL")

\* load_and_prepare_data
LoadAndPrepareData ==
    /\ pc = "load"
    /\ AnalysedFile \in DOMAIN files
    /\ LET raw == files[AnalysedFile]
       IN  df' = [cols |-> raw.cols \cup {"hour", "month", "day_of_week",
                                          "season", "is_weekend", "year"},
                  rows |-> [k \in 1..Len(raw.rows) |-> PreparedRow(raw.rows[k])]]
    /\ pc' = "prepared"
    /\ UNCHANGED <<analysis, params, faults, idx, current_start, dfs,
                   daily_metrics, all_metrics, all_raw_data, files, log>>

\* The rows whose column `col` has the value `key`, in order
RowsWith(rows, col, key) == SelectSeq(rows, LAMBDA r : r[col] = key)

\* The rows whose hour is one of `hours`
RowsInHours(rows, hours) == SelectSeq(rows, LAMBDA r : r.hour \in hours)

\* The prices of the rows in ascending order
RECURSIVE SortedPrices(_)
SortedPrices(rows) ==
    IF rows = <<>> THEN <<>>
    ELSE LET m == MinPrice(rows)
             i == CHOOSE k \in 1..Len(rows) :
                     /\ rows[k].price = m
                     /\ \A j \in 1..(k - 1) : rows[j].price # m
         IN  <<m>> \o SortedPrices(SubSeq(rows, 1, i - 1)
                                     \o SubSeq(rows, i + 1, Len(rows)))

\* 'mean', rounded to two decimals
MeanOf(rows) == RoundDiv(100 * SumPrices(rows), Len(rows))

\* 'median', rounded to two decimals
MedianOf(rows) ==
    LET x == SortedPrices(rows)
        n == Len(rows)
    IN  IF n % 2 = 1 THEN 100 * x[(n + 1) \div 2]
        ELSE 50 * (x[n \div 2] + x[n \div 2 + 1])

RECURSIVE SumSquares(_)
SumSquares(rows) ==
    IF rows = <<>> THEN 0
    ELSE Head(rows).price * Head(rows).price + SumSquares(Tail(rows))

\* The largest standard deviation, in hundredths, that is looked for
StdLimit == 2000

\* 'std', the sample standard deviation rounded to two decimals; NaN for a
\* single observation
StdOf(rows) ==
    LET n   == Len(rows)
        num == n * SumSquares(rows) - SumPrices(rows) * SumPrices(rows)
        den == n * (n - 1)
    IN  IF n < 2 THEN [nan |-> TRUE, value |-> 0]
        ELSE [nan |-> FALSE,
              value |-> CHOOSE k \in 0..StdLimit :
                          /\ k = 0 \/ (2 * k - 1) * (2 * k - 1) * den <= 40000 * num
                          /\ 40000 * num < (2 * k + 1) * (2 * k + 1) * den]

\* .agg(['mean', 'median', 'std', 'min', 'max']).round(2) of one group
Stats5(rows) ==
    [mean |-> MeanOf(rows), median |-> MedianOf(rows), std |-> StdOf(rows),
     min |-> 100 * MinPrice(rows), max |-> 100 * MaxPrice(rows)]

\* .agg(['mean', 'median', 'std']).round(2) of one group
Stats3(rows) ==
    [mean |-> MeanOf(rows), median |-> MedianOf(rows), std |-> StdOf(rows)]

\* The values of column `col`
KeysOf(rows, col) == {r[col] : r \in RowSet(rows)}

\* nlargest(n) (largest = TRUE) or nsmallest(n) of the mean by hour: the
\* hours in the order of their means, the earlier hour first among equals
RECURSIVE TopHours(_, _, _, _)
TopHours(stats, hours, n, largest) ==
    IF n = 0 \/ hours = {} THEN <<>>
    ELSE LET Before(a, b) ==
                 \/ (IF largest THEN stats[a].mean > stats[b].mean
                     ELSE stats[a].mean < stats[b].mean)
                 \/ stats[a].mean = stats[b].mean /\ a < b
             h == CHOOSE a \in hours : \A b \in hours \ {a} : Before(a, b)
         IN  <<h>> \o TopHours(stats, hours \ {h}, n - 1, largest)

\* analyze_hourly_patterns: the empty series gives empty statistics and
\* empty lists
AnalyzeHourlyPatterns ==
    /\ pc = "prepared"
    /\ LET hours == KeysOf(df.rows, "hour")
           hourly_stats == [h \in hours |-> Stats5(RowsWith(df.rows, "hour", h))]
       IN  analysis' = [view |-> "hourly", raised |-> FALSE,
                        hourly_stats |-> hourly_stats,
                        peak_hours |-> TopHours(hourly_stats, hours, 5, TRUE),
                        valley_hours |-> TopHours(hourly_stats, hours, 5, FALSE)]
    /\ pc' = "analysed"
    /\ UNCHANGED <<params, faults, idx, current_start, dfs, df, daily_metrics,
                   all_metrics, all_raw_data, files, log>>

\* analyze_seasonal_patterns: the empty series gives empty statistics
AnalyzeSeasonalPatterns ==
    /\ pc = "prepared"
    /\ analysis' =
          [view |-> "seasonal", raised |-> FALSE,
           seasonal_stats |-> [s \in KeysOf(df.rows, "season") |->
                                  Stats5(RowsWith(df.rows, "season", s))],
           monthly_stats |-> [m \in KeysOf(df.rows, "month") |->
                                 Stats3(RowsWith(df.rows, "month", m))]]
    /\ pc' = "analysed"
    /\ UNCHANGED <<params, faults, idx, current_start, dfs, df, daily_metrics,
                   all_metrics, all_raw_data, files, log>>

\* The labels that are assigned to the groups by position
WeekdayLabels == <<"Weekday", "Weekend">>

\* The values of is_weekend in the series, False before True as groupby
\* sorts them
WeekendKeys(rows) ==
    (IF FALSE \in KeysOf(rows, "is_weekend") THEN <<FALSE>> ELSE <<>>)
        \o (IF TRUE \in KeysOf(rows, "is_weekend") THEN <<TRUE>> ELSE <<>>)

\* analyze_weekday_patterns: weekday_stats.index = ['Weekday', 'Weekend']
\* raises a ValueError unless the series has both groups
AnalyzeWeekdayPatterns ==
    /\ pc = "prepared"
    /\ LET keys == WeekendKeys(df.rows)
           Cell(h, key) ==
               MeanPrice(SelectSeq(df.rows,
                             LAMBDA r : r.hour = h /\ r.is_weekend = key))
       IN  IF Len(keys) # Len(WeekdayLabels)
           THEN analysis' = [view |-> "weekday", raised |-> TRUE]
           ELSE analysis' =
                  [view |-> "weekday", raised |-> FALSE,
                   weekday_stats |->
                       [k \in 1..Len(keys) |->
                           [label |-> WeekdayLabels[k],
                            stats |-> Stats3(RowsWith(df.rows, "is_weekend",
                                                      keys[k]))]],
                   hourly_weekday |->
                       [h \in KeysOf(df.rows, "hour") |->
                           [k \in 1..Len(keys) |->
                               [label |-> WeekdayLabels[k],
                                mean |-> Cell(h, keys[k])]]]]
    /\ pc' = "analysed"
    /\ UNCHANGED <<params, faults, idx, current_start, dfs, df, daily_metrics,
                   all_metrics, all_raw_data, files, log>>

\* df['price'].quantile(0.95), times 100: linear interpolation between the
\* two order statistics around position 0.95 * (n - 1)
HighThreshold(rows) ==
    LET x == SortedPrices(rows)
        i == (95 * (Len(rows) - 1)) \div 100
        f == (95 * (Len(rows) - 1)) % 100
    IN  IF f = 0 THEN 100 * x[i + 1]
        ELSE 100 * x[i + 1] + f * (x[i + 2] - x[i + 1])

\* A selection that counts the price 0 as negative (a faulty variant)
NegativePricesIncludingZero(rows) == SelectSeq(rows, LAMBDA r : r.price <= 0)

\* df[df['price'] < 0]
NegativePrices(rows) == SelectSeq(rows, LAMBDA r : r.price < 0)

\* analyze_extreme_prices: len(negative_prices)/len(df) raises a
\* ZeroDivisionError for the empty series
AnalyzeExtremePrices ==
    /\ pc = "prepared"
    /\ IF IsEmpty(df)
       THEN analysis' = [view |-> "extreme", raised |-> TRUE]
       ELSE analysis' =
              [view |-> "extreme", raised |-> FALSE,
               negative_prices |-> NegativePrices(df.rows),
               very_high |-> SelectSeq(df.rows,
                                LAMBDA r : 100 * r.price > HighThreshold(df.rows))]
    /\ pc' = "analysed"
    /\ UNCHANGED <<params, faults, idx, current_start, dfs, df, daily_metrics,
                   all_metrics, all_raw_data, files, log>>

\* The values of the date column in ascending order
RECURSIVE SortedDates(_)
SortedDates(S) ==
    IF S = {} THEN <<>>
    ELSE LET d == CHOOSE x \in S : \A y \in S : x <= y
         IN  <<d>> \o SortedDates(S \ {d})

\* A spread taken from the day's first price (a faulty variant)
DailySpreadAboveFirst(rows) == MaxPrice(rows) - rows[1].price

\* daily_stats['max'] - daily_stats['min']
DailySpread(rows) == MaxPrice(rows) - MinPrice(rows)

\* calculate_arbitrage_potential: one row per date; the empty series gives
\* an empty table
CalculateArbitragePotential ==
    /\ pc = "prepared"
    /\ LET dates == SortedDates(KeysOf(df.rows, "date"))
           Day(d) == RowsWith(df.rows, "date", d)
       IN  analysis' =
             [view |-> "arbitrage", raised |-> FALSE,
              daily_stats |->
                  [k \in 1..Len(dates) |->
                      [date |-> dates[k],
                       min |-> MinPrice(Day(dates[k])),
                       max |-> MaxPrice(Day(dates[k])),
                       mean |-> MeanPrice(Day(dates[k])),
                       daily_spread |-> DailySpread(Day(dates[k])),
                       arbitrage_potential_mwh |-> DailySpread(Day(dates[k])),
                       arbitrage_potential_kwh |->
                           [num |-> DailySpread(Day(dates[k])), den |-> 1000]]]]
    /\ pc' = "analysed"
    /\ UNCHANGED <<params, faults, idx, current_start, dfs, df, daily_metrics,
                   all_metrics, all_raw_data, files, log>>

\* list(range(11, 16)) and list(range(17, 22))
solar_peak_hours == 11..15

peak_demand_hours == 17..21

\* The evening mean minus the solar mean of one day, as a fraction; NaN when
\* either window has no observation
SolarVsEvening(rows) ==
    LET evening == MeanPrice(RowsInHours(rows, peak_demand_hours))
        solar   == MeanPrice(RowsInHours(rows, solar_peak_hours))
    IN  IF evening.n = 0 \/ solar.n = 0
        THEN [nan |-> TRUE, num |-> 0, den |-> 1]
        ELSE [nan |-> FALSE,
              num |-> evening.sum * solar.n - solar.sum * evening.n,
              den |-> evening.n * solar.n]

\* A total that counts every day of the series (a faulty variant)
TotalDaysCountingAll(diffs) == Len(diffs)

\* len(daily_solar_vs_evening.dropna())
TotalDays(diffs) == Len(SelectSeq(diffs, LAMBDA x : ~x.diff.nan))

\* (daily_solar_vs_evening > 0).sum()
ProfitableDays(diffs) ==
    Len(SelectSeq(diffs, LAMBDA x : ~x.diff.nan /\ x.diff.num > 0))

\* analyze_solar_optimization: what it prints of the per-day comparison.
\* For the empty series groupby('date').apply returns, depending on the
\* pandas build, an empty Series (0/0 days are printed) or an empty
\* DataFrame (the formatting raises a TypeError).
AnalyzeSolarOptimization ==
    /\ pc = "prepared"
    /\ LET dates == SortedDates(KeysOf(df.rows, "date"))
           daily_solar_vs_evening ==
               [k \in 1..Len(dates) |->
                   [date |-> dates[k],
                    diff |-> SolarVsEvening(RowsWith(df.rows, "date", dates[k]))]]
       IN  \E raises \in BOOLEAN :
              /\ raises => IsEmpty(df)
              /\ analysis' =
                   IF raises THEN [view |-> "solar", raised |-> TRUE]
                   ELSE [view |-> "solar", raised |-> FALSE,
                         daily_solar_vs_evening |-> daily_solar_vs_evening,
                         profitable_days |-> ProfitableDays(daily_solar_vs_evening),
                         total_days |-> TotalDays(daily_solar_vs_evening)]
    /\ pc' = "analysed"
    /\ UNCHANGED <<params, faults, idx, current_start, dfs, df, daily_metrics,
                   all_metrics, all_raw_data, files, log>>

\* The series that are analysed: up to MaxObservations observations at noon,
\* at 19 h and at 23 h UTC of the days 0 to 2 (a Saturday, a Sunday and a
\* Monday), at negative, zero and positive prices
ObservedHours == {12, 19, 23}

ObservationTimes == {d * HoursPerDay + h : d \in 0..2, h \in ObservedHours}

PriceValues == {0 - 1, 0, 2}

\* The raw file of the series with the observations `price` (a function from
\* their times to their prices), as process_country_data writes it
RawSeries(price) ==
    LET times == SortedDates(DOMAIN price)
        utc == [cols |-> {"datetime", "price", "country"},
                rows |-> [k \in 1..Len(times) |->
                             Row(times[k], "UTC", price[times[k]], "NL")]]
    IN  IF utc.rows = <<>>
        THEN [cols |-> utc.cols \cup {"date"}, rows |-> <<>>]
        ELSE WithDateColumn(IF use_local_time
                            THEN ConvertToLocalTimezone(utc, "NL")
                            ELSE utc)

InitAnalysis ==
    /\ inclusive_end = FALSE
    /\ resolution = 1
    /\ remote_tz = "UTC"
    /\ faults = 0
    /\ argv = NoArgs
    /\ countries = <<"NL">>
    /\ start_date = 0
    /\ end_date = 3 * HoursPerDay
    /\ chunk_days = DefaultChunkDays
    /\ use_local_time \in BOOLEAN
    /\ create_combined = FALSE
    /\ now = DstStart
    /\ caller = "analysis"
    /\ pc = "load"
    /\ idx = 1
    /\ current_start = end_date
    /\ dfs = <<>>
    /\ df = EmptyFrame
    /\ daily_metrics = EmptyFrame
    /\ all_metrics = <<>>
    /\ all_raw_data = <<>>
    /\ \E S \in SUBSET ObservationTimes :
          /\ Cardinality(S) <= MaxObservations
          /\ \E price \in [S -> PriceValues] :
                files = WriteFile(NoFiles, AnalysedFile, RawSeries(price))
    /\ log = <<>>
    /\ analysis = NoAnalysis

NextAnalysis ==
    \/ LoadAndPrepareData
    \/ AnalyzeHourlyPatterns
    \/ AnalyzeSeasonalPatterns
    \/ AnalyzeWeekdayPatterns
    \/ AnalyzeExtremePrices
    \/ CalculateArbitragePotential
    \/ AnalyzeSolarOptimization

SpecAnalysis == InitAnalysis /\ [][NextAnalysis]_vars

---------------------------------------------------------------------------
(* What the run did, read off the log *)

\* The requests of the i-th call of retrieve_data_in_chunks, in request order
Requests(i) == SelectSeq(log, LAMBDA ev : ev.kind = "request" /\ ev.call = i)

\* Its pacing delays
Sleeps(i) == SelectSeq(log, LAMBDA ev : ev.kind = "sleep" /\ ev.call = i)

\* The i-th call of retrieve_data_in_chunks has returned
Returned(i) ==
    idx > i \/ (idx = i /\ pc \notin {"main_loop", "chunk", "sleep"})

\* The events of kind `kind` logged while the i-th country was processed
Events(i, kind) == SelectSeq(log, LAMBDA ev : ev.kind = kind /\ ev.call = i)

\* process_country_data has returned to main for the i-th country
Processed(i) == idx > i \/ (idx = i /\ pc = "collect")

\* One of its chunk requests failed with an error of the given kinds
RequestFailed(i, kinds) ==
    \E k \in 1..Len(Requests(i)) : Requests(i)[k].outcome \in kinds

\* One of its chunk requests returned data
SomeData(i) == RequestFailed(i, {"data"})

RunEnded == pc \in {"done", "aborted"}

Timestamps(rows) == [k \in 1..Len(rows) |-> rows[k].datetime]

\* The rows of the requests that returned data, in request order
RECURSIVE DataRows(_)
DataRows(reqs) ==
    IF reqs = <<>> THEN <<>>
    ELSE LET r == Head(reqs)
         IN  (IF r.outcome = "data"
              THEN RemoteSeries(r.country, r.start, r.end, inclusive_end, resolution)
              ELSE <<>>) \o DataRows(Tail(reqs))

---------------------------------------------------------------------------
(* C1: for start < end and a chunk span of at least one day, the           *)
(* sub-intervals requested are consecutive and non-overlapping (each       *)
(* starts where the previous one ended), none is empty or longer than the  *)
(* chunk span, the first starts at start and, once the call has returned,  *)
(* the last ends at end: together they are exactly [start, end).           *)
C1_ChunksPartitionRange ==
    LET R == Requests(1)
    IN  (start_date < end_date /\ chunk_days >= 1) =>
          /\ Len(R) > 0 => R[1].start = start_date
          /\ \A k \in 1..Len(R) :
                /\ R[k].start < R[k].end
                /\ R[k].end - R[k].start <= chunk_days * HoursPerDay
                /\ R[k].end <= end_date
          /\ \A k \in 1..(Len(R) - 1) : R[k + 1].start = R[k].end
          /\ Returned(1) => (Len(R) > 0 /\ R[Len(R)].end = end_date)

\* A returned call of three chunks whose last chunk is shorter than the span
C1_Witness ==
    LET R == Requests(1)
    IN  /\ pc = "returned"
        /\ Len(R) = 3
        /\ R[3].end - R[3].start < chunk_days * HoursPerDay

C5_SeriesHasNoDuplicateTimestamp ==
    pc = "returned" =>
        LET ts == Timestamps(df.rows)
        IN  /\ \A k \in 1..(Len(ts) - 1) : ts[k] <= ts[k + 1]
            /\ \A j, k \in 1..Len(ts) : ts[j] = ts[k] => j = k

(* C6: when every request returns data, the observations assembled from    *)
(* the chunks are, as a set, those of one request for the whole range.     *)
C6_ChunkedEqualsWhole ==
    LET R == Requests(1)
    IN  (pc = "returned" /\ Len(R) >= 1
            /\ \A k \in 1..Len(R) : R[k].outcome = "data") =>
           RowSet(df.rows) =
             RowSet(RetrieveDayAheadPrices(countries[1], start_date, end_date,
                                           "data").rows)

\* A range retrieved as two chunks [A,B) and [B,C), both of which returned data
C6_Witness ==
    LET R == Requests(1)
    IN  /\ pc = "returned"
        /\ Len(R) = 2
        /\ R[1].outcome = "data" /\ R[2].outcome = "data"
        /\ start_date < R[1].end /\ R[1].end < end_date
        /\ df.rows # <<>>

C8_OneDelayLessThanChunksAsClaimed ==
    (pc = "returned" /\ Len(Requests(1)) >= 1) =>
        Len(Sleeps(1)) = Len(Requests(1)) - 1

(* C8, amended: a retrieval of n sub-intervals incurs exactly n pacing     *)
(* delays, one right after each request, the last request included.        *)
C8_OneDelayAfterEachChunk ==
    /\ \A k \in 1..Len(log) :
          log[k].kind = (IF k % 2 = 1 THEN "request" ELSE "sleep")
    /\ pc \in {"chunk", "returned"} => Len(Sleeps(1)) = Len(Requests(1))
    /\ pc = "sleep" => Len(Sleeps(1)) = Len(Requests(1)) - 1

\* A returned call of two chunks: the log ends with the delay after the last
C8_Witness ==
    /\ pc = "returned"
    /\ Len(Requests(1)) = 2
    /\ log[Len(log)].kind = "sleep"

(* C9: when start >= end the call makes no request, incurs no pacing delay *)
(* and returns an empty series.                                            *)
C9_EmptyRangeNoRequest ==
    start_date >= end_date =>
        /\ log = <<>>
        /\ pc = "returned" => IsEmpty(df)

\* A returned call with start after end
C9_Witness ==
    /\ pc = "returned"
    /\ start_date > end_date

---------------------------------------------------------------------------
C4_RunGoesOnAfterAnyFailureAsClaimed ==
    \A i \in 1..Len(countries) :
        (RunEnded /\ (RequestFailed(i, {"error", "transient"})
                        \/ Events(i, "export_failed") # <<>>)) =>
            \A j \in (i + 1)..Len(countries) : Processed(j)

\* The files other than those of the country being processed
OthersFiles(fs) ==
    {n \in DOMAIN fs : idx > Len(countries) \/ n[1] # Lower(countries[idx])}

C4_StateAfterFailure ==
    /\ \A i \in 1..Len(countries) :
          (RunEnded /\ RequestFailed(i, {"error", "transient"})
                    /\ \A j \in 1..Len(countries) : Events(j, "export_failed") = <<>>)
             => \A j \in (i + 1)..Len(countries) : Processed(j)
    /\ \A i \in 1..Len(countries) :
          Events(i, "export_failed") # <<>> =>
             /\ pc = "aborted"
             /\ idx = i
             /\ \A k \in 1..Len(log) : log[k].call <= i
    /\ pc = "aborted" =>
          \E i \in 1..(Len(countries) + 1) : Events(i, "export_failed") # <<>>

(* C4, amended: a failed chunk request of one country does not stop the    *)
(* run: unless an export fails, every country listed after it is still     *)
(* processed.  An exception raised in export_to_csv ends the run: no       *)
(* country listed after the failing one is processed.  In every step the   *)
(* files of the other countries stay as they are.                          *)
C4_RetrievalFailureGoesOnExportFailureStops ==
    [][/\ C4_StateAfterFailure'
       /\ \A n \in OthersFiles(files) :
             n \in DOMAIN files' /\ files'[n] = files[n]]_vars

\* A run of two countries that ended: every chunk of the first failed with
\* an error, the second was processed and its files are there, with no file
\* of the first
C4_Witness ==
    /\ pc = "done"
    /\ Len(countries) = 2
    /\ countries[1] # countries[2]
    /\ RequestFailed(1, {"error"})
    /\ ~SomeData(1)
    /\ DOMAIN files = {MetricsFilename(countries[2]), RawFilename(countries[2])}

---------------------------------------------------------------------------
\* The calendar date of a row's timestamp on the wall clock of its own
\* representation (its UTC date when it is rendered in UTC or has no zone)
WallClockDate(r) == (r.datetime + UtcOffset(r.tz, r.datetime)) \div HoursPerDay

\* How many rows of the series fall on wall-clock date d for country c
RowsOn(rows, d, c) ==
    Cardinality({k \in 1..Len(rows) :
                    WallClockDate(rows[k]) = d /\ rows[k].country = c})

(* C10: after calculate_daily_metrics, every observation of the series is  *)
(* dated with the calendar date of its timestamp as rendered in the        *)
(* series' representation and belongs to exactly one metrics row, the one  *)
(* of its (date, country); every metrics row aggregates exactly the        *)
(* observations of its date, none dropped, whatever their number (23 or 25 *)
(* on a day of a daylight-saving transition).                              *)
C10_GroupsByRenderedDate ==
    pc = "export_metrics" =>
        LET rows == df.rows
            M == daily_metrics.rows
        IN  /\ Len(rows) = end_date - start_date
            /\ \A k \in 1..Len(rows) :
                  /\ rows[k].date = WallClockDate(rows[k])
                  /\ Cardinality({j \in 1..Len(M) :
                                     /\ M[j].date = rows[k].date
                                     /\ M[j].country = rows[k].country}) = 1
            /\ \A j \in 1..Len(M) :
                  /\ M[j].weighted_avg.n = RowsOn(rows, M[j].date, M[j].country)
                  /\ M[j].weighted_avg.n >= 1
                  /\ \A k \in 1..Len(rows) :
                        (rows[k].date = M[j].date /\ rows[k].country = M[j].country)
                           => (M[j].min_price <= rows[k].price
                                  /\ rows[k].price <= M[j].max_price)

\* A series in local time: local day 1 (spring forward) forms a group of 23
\* observations and local day 3 (fall back) one of 25, and the first
\* observation of day 1 falls on day 0 in UTC
C10_Witness ==
    /\ pc = "export_metrics"
    /\ use_local_time
    /\ \E i, j \in 1..Len(daily_metrics.rows) :
          /\ daily_metrics.rows[i].date = 1
          /\ daily_metrics.rows[i].weighted_avg.n = HoursPerDay - 1
          /\ daily_metrics.rows[j].date = 3
          /\ daily_metrics.rows[j].weighted_avg.n = HoursPerDay + 1
    /\ \E k \in 1..Len(df.rows) :
          df.rows[k].date = 1 /\ df.rows[k].datetime \div HoursPerDay = 0

---------------------------------------------------------------------------
\* The rows of a frame are rendered in UTC: offset zero, and dated (when the
\* date column is there) with the UTC date of their instant
RenderedInUtc(frame) ==
    \A k \in 1..Len(frame.rows) :
        LET r == frame.rows[k]
        IN  /\ r.offset = 0
            /\ "date" \in frame.cols => r.date = r.datetime \div HoursPerDay

(* C11 as stated: in a run without --local-time, every timestamp of the    *)
(* series that is aggregated and of the series exported under the 'utc'    *)
(* suffix is the UTC rendering of its instant, whatever offset the         *)
(* timestamps returned by the remote source carry.                         *)
C11_UtcRunHoldsUtcTimestamps ==
    ~use_local_time =>
        /\ pc = "export_metrics" => RenderedInUtc(df)
        /\ \A n \in DOMAIN files :
              (n[2] = "raw_prices" /\ n[3] = <<"utc">>) => RenderedInUtc(files[n])

---------------------------------------------------------------------------
(* C12: convert_to_local_timezone returns the observations of its input in *)
(* the same order, each with its price and country unchanged and with a    *)
(* timestamp that denotes the same instant, rendered in the country's      *)
(* zone: a timestamp without a zone is read as UTC, and a timestamp with   *)
(* an offset keeps its instant (it is converted, not reinterpreted).       *)
C12_ConversionKeepsInstantsAndPrices ==
    (pc = "metrics" /\ use_local_time) =>
        LET c == countries[1]
            input == RetrieveDayAheadPrices(c, start_date, end_date, "data").rows
        IN  /\ Len(df.rows) = Len(input)
            /\ \A k \in 1..Len(input) :
                  /\ df.rows[k].price = input[k].price
                  /\ df.rows[k].country = input[k].country
                  \* the same instant (that of a timestamp without a zone
                  \* is its wall clock read as UTC)
                  /\ df.rows[k].datetime = input[k].datetime
                  /\ df.rows[k].tz = COUNTRY_TIMEZONES(c)
                  /\ df.rows[k].offset =
                        UtcOffset(COUNTRY_TIMEZONES(c), input[k].datetime)

\* A series without a zone converted for NL, and a series in Amsterdam time
\* converted for GB: in both, an observation's wall clock changes
C12_Witness ==
    /\ pc = "metrics"
    /\ use_local_time
    /\ \/ remote_tz = "naive" /\ countries[1] = "NL"
       \/ remote_tz = "Europe/Amsterdam" /\ countries[1] = "GB"
    /\ LET input == RetrieveDayAheadPrices(countries[1], start_date, end_date,
                                           "data").rows
       IN  \E k \in 1..Len(df.rows) : df.rows[k].offset # input[k].offset

---------------------------------------------------------------------------
\* The timestamps of a frame as rendered: instant, zone and offset
Renderings(frame) ==
    [k \in 1..Len(frame.rows) |->
        <<frame.rows[k].datetime, frame.rows[k].tz, frame.rows[k].offset>>]

Prices(frame) == [k \in 1..Len(frame.rows) |-> frame.rows[k].price]

\* Every timestamp of the frame is rendered in zone tz
InZone(frame, tz) == \A k \in 1..Len(frame.rows) : frame.rows[k].tz = tz

\* The argument and the result of the i-th conversion
ConvertArg(i) == dfs[i]

ConvertResult(i) == IF i < Len(dfs) THEN dfs[i + 1] ELSE df

(* C13: converting a series that is already rendered in the target zone    *)
(* (UTC or a country's zone) returns the same timestamps, rendered the     *)
(* same, and the same prices; and converting a series rendered in a local  *)
(* zone to UTC and then back to that zone recovers the original timestamps *)
(* exactly, offsets included.                                              *)
C13_ConversionIdempotentAndRoundTrips ==
    \A i \in 1..Len(log) :
        LET target == COUNTRY_TIMEZONES(log[i].country)
        IN  /\ InZone(ConvertArg(i), target) =>
                  /\ Renderings(ConvertResult(i)) = Renderings(ConvertArg(i))
                  /\ Prices(ConvertResult(i)) = Prices(ConvertArg(i))
            /\ (/\ i < Len(log)
                /\ target = "UTC"
                /\ InZone(ConvertArg(i), COUNTRY_TIMEZONES(log[i + 1].country)))
                  => Renderings(ConvertResult(i + 1)) = Renderings(ConvertArg(i))

\* A series in Amsterdam time, part of it in summer time, converted to UTC
\* (a code without a zone entry) and then for NL
C13_Witness ==
    /\ Len(log) = 2
    /\ log[1].country = UnlistedCountry
    /\ log[2].country = "NL"
    /\ InZone(dfs[1], "Europe/Amsterdam")
    /\ InZone(dfs[2], "UTC")
    /\ \E j, k \in 1..Len(df.rows) :
          /\ dfs[1].rows[j].offset = 1 /\ dfs[1].rows[k].offset = 2
          /\ dfs[2].rows[k].offset = 0
          /\ df.rows[k].offset = 2

---------------------------------------------------------------------------
\* The rows (by index) of the (date, country) pair of a metrics row
GroupOf(rows, m) ==
    {k \in 1..Len(rows) : rows[k].date = m.date /\ rows[k].country = m.country}

\* The sum of the prices of the rows with index in S
RECURSIVE SumAt(_, _)
SumAt(rows, S) ==
    IF S = {} THEN 0
    ELSE LET k == CHOOSE k \in S : TRUE
         IN  rows[k].price + SumAt(rows, S \ {k})

(* C14: calculate_daily_metrics returns exactly one row for every (date,   *)
(* country) pair of its input and no row for any other pair; in each row   *)
(* the minimum and the maximum are the least and the greatest price of the *)
(* group, negative prices included, and the average is the sum of all      *)
(* prices of the group over their number.                                  *)
C14_OneRowPerGroupWithExtremaAndMean ==
    pc = "export_metrics" =>
        LET rows == df.rows
            M == daily_metrics.rows
        IN  /\ \A k \in 1..Len(rows) :
                  Cardinality({j \in 1..Len(M) :
                                  /\ M[j].date = rows[k].date
                                  /\ M[j].country = rows[k].country}) = 1
            /\ \A j \in 1..Len(M) :
                  LET G == GroupOf(rows, M[j])
                  IN  /\ G # {}
                      /\ \E k \in G : rows[k].price = M[j].min_price
                      /\ \A k \in G : M[j].min_price <= rows[k].price
                      /\ \E k \in G : rows[k].price = M[j].max_price
                      /\ \A k \in G : rows[k].price <= M[j].max_price
                      /\ M[j].weighted_avg.n = Cardinality(G)
                      /\ M[j].weighted_avg.sum = SumAt(rows, G)

\* The series of two countries: both have a row for the same date, and the
\* minimum of one group is negative while its mean is not
C14_Witness ==
    /\ pc = "export_metrics"
    /\ Len(countries) = 2
    /\ \E i, j \in 1..Len(daily_metrics.rows) :
          LET a == daily_metrics.rows[i]
              b == daily_metrics.rows[j]
          IN  /\ a.date = b.date
              /\ a.country # b.country
              /\ a.min_price < 0
              /\ a.weighted_avg.sum > 0
              /\ a.weighted_avg.n = HoursPerDay

---------------------------------------------------------------------------
\* The value of column col in a row, when the row has it
Value(row, col) == IF col \in DOMAIN row THEN row[col] ELSE "absent"

MwhColumns == {"min_price_mwh", "max_price_mwh", "weighted_avg_mwh"}

KwhColumns == {"min_price_kwh", "max_price_kwh", "weighted_avg_kwh"}

\* The kWh column of a MWh column
KwhOf(col) ==
    CASE col = "min_price_mwh"    -> "min_price_kwh"
      [] col = "max_price_mwh"    -> "max_price_kwh"
      [] col = "weighted_avg_mwh" -> "weighted_avg_kwh"

(* C15 as stated: for every non-empty input, the table returned by         *)
(* calculate_daily_metrics has the columns min_price_mwh, max_price_mwh,   *)
(* weighted_avg_mwh, min_price_kwh, max_price_kwh and weighted_avg_kwh,    *)
(* and in every row each kWh value is the MWh value over 1000.             *)
C15_MetricsHaveMwhAndKwhColumns ==
    (pc = "export_metrics" /\ ~IsEmpty(df)) =>
        /\ (MwhColumns \cup KwhColumns) \subseteq daily_metrics.cols
        /\ \A j \in 1..Len(daily_metrics.rows) :
              \A col \in MwhColumns :
                 Value(daily_metrics.rows[j], KwhOf(col)) =
                    [num |-> Value(daily_metrics.rows[j], col), den |-> 1000]

---------------------------------------------------------------------------
\* The tax configuration the specification gives a country: the two taxes
\* in 1/100000 EUR per kWh and the VAT rate in percent.  NL has one (energy
\* tax 0.01, renewable energy tax 0.005, VAT 21 %), GB has none.  The
\* program has no such table.
TAX_CONFIG ==
    [c \in {"NL"} |-> [energy_tax |-> 1000, renewable_energy_tax |-> 500,
                       vat_rate |-> 21]]

\* (mean price per kWh + energy_tax + renewable_energy_tax) * (1 + vat_rate)
\* rounded to 5 decimal places, in 1/100000 EUR per kWh, for a mean price
\* per MWh of sum / n: a mean of 50 gives 7865 with NL's taxes
AllInPrice(mean, tax) ==
    RoundDiv((mean.sum * 100 + (tax.energy_tax + tax.renewable_energy_tax) * mean.n)
                * (100 + tax.vat_rate),
             100 * mean.n)

(* C16 as stated: every daily metric row of a country that has a tax       *)
(* configuration carries an all-in consumer price equal to (mean price per *)
(* kWh + energy_tax + renewable_energy_tax) * (1 + vat_rate), rounded to 5 *)
(* decimal places; for a country without one the field is absent or null,  *)
(* never zero.                                                             *)
C16_AllInPriceWhereTaxConfigured ==
    pc = "export_metrics" =>
        \A j \in 1..Len(daily_metrics.rows) :
            LET row == daily_metrics.rows[j]
                all_in == Value(row, "weighted_avg_kwh_all_in_price")
            IN  IF row.country \in DOMAIN TAX_CONFIG
                THEN /\ "weighted_avg_kwh_all_in_price" \in daily_metrics.cols
                     /\ all_in = AllInPrice(row.weighted_avg,
                                            TAX_CONFIG[row.country])
                ELSE all_in \in {"absent", "null"}

---------------------------------------------------------------------------
\* The run ended with sys.exit in function `where`
Exited(where) ==
    pc = "exit" /\ log # <<>> /\ log[Len(log)] = ExitEvent(where)

\* get_countries has returned a list to main
GetCountriesReturned == pc \notin {"get_api_key", "get_countries", "exit"}
                           \/ Exited("get_date_range")

\* The codes of a list that are in the country table once upper-cased, in
\* the order of the list
RECURSIVE Listed(_)
Listed(codes) ==
    IF codes = <<>> THEN <<>>
    ELSE (IF StripUpper(Head(codes)) \in COUNTRY_CODES
          THEN <<StripUpper(Head(codes))>> ELSE <<>>) \o Listed(Tail(codes))

\* --countries names a code that is not in the country table
SomeCodeUnknown ==
    /\ argv.countries.given
    /\ \E k \in 1..Len(argv.countries.codes) :
          StripUpper(argv.countries.codes[k]) \notin COUNTRY_CODES

\* No remote request was made and no file was written
NothingRetrievedOrWritten ==
    /\ \A k \in 1..Len(log) : log[k].kind # "request"
    /\ files = NoFiles

(* C17 as stated: a run whose --countries names a code that is not in the  *)
(* country table fails before any retrieval: it makes no remote request    *)
(* and writes no file, even when other requested codes are valid.          *)
C17_UnknownCodeFailsTheRunAsClaimed ==
    SomeCodeUnknown =>
        /\ NothingRetrievedOrWritten
        /\ pc \in {"get_api_key", "get_countries", "exit"}

(* C17, amended: a code that is not in the country table is skipped and    *)
(* the run goes on with the requested codes that are in the table:         *)
(* get_countries does not exit, main processes exactly those codes, in the *)
(* order given, and requests and files are those of these codes.  Only     *)
(* when none of the requested codes is in the table does the run fail      *)
(* before any retrieval, with no request made and no file written.         *)
C17_UnknownCodeIsSkipped ==
    SomeCodeUnknown =>
        LET valid == Listed(argv.countries.codes)
        IN  IF valid = <<>>
            THEN /\ NothingRetrievedOrWritten
                 /\ pc \in {"get_api_key", "get_countries", "exit"}
            ELSE /\ ~Exited("get_countries")
                 /\ GetCountriesReturned => countries = valid
                 /\ \A k \in 1..Len(log) :
                       log[k].kind = "request" => log[k].country \in RowSet(valid)
                 /\ \A n \in DOMAIN files :
                       \E c \in RowSet(valid) : n[1] = Lower(c)
                 /\ pc = "done" => \A i \in 1..Len(valid) : Processed(i)

\* A run for XX and nl that ended: NL was requested and its two files are
\* the files of the run
C17_Witness ==
    /\ pc = "done"
    /\ argv.countries.codes = <<"XX", "nl">>
    /\ countries = <<"NL">>
    /\ SomeData(1)
    /\ DOMAIN files = {MetricsFilename("NL"), RawFilename("NL")}

---------------------------------------------------------------------------
(* C18: get_countries returns the requested codes that are in              *)
(* COUNTRY_CODES, upper-cased and in the order given; it exits when there  *)
(* is no --countries argument or when none of its codes is in              *)
(* COUNTRY_CODES, and only then; it never returns an empty list or a code  *)
(* outside COUNTRY_CODES.                                                  *)
C18_GetCountriesReturnsListedCodes ==
    LET valid == Listed(argv.countries.codes)
        nothing == ~argv.countries.given \/ valid = <<>>
    IN  /\ GetCountriesReturned =>
              /\ countries = valid
              /\ countries # <<>>
              /\ \A k \in 1..Len(countries) : countries[k] \in COUNTRY_CODES
        /\ nothing => ~GetCountriesReturned
        /\ Exited("get_countries") => nothing
        /\ (nothing /\ argv.api_key /\ pc # "get_api_key"
               /\ pc # "get_countries") => Exited("get_countries")

\* Two codes typed in lower case, one with blanks, returned upper-cased in
\* the order given
C18_Witness ==
    /\ GetCountriesReturned
    /\ argv.countries.codes = <<"gb", " nl ">>
    /\ countries = <<"GB", "NL">>

---------------------------------------------------------------------------
\* --start-date and --end-date are both given as dates, the start not
\* before the end
EmptyExplicitRange ==
    /\ argv.start_date.kind = "date"
    /\ argv.end_date.kind = "date"
    /\ argv.start_date.value >= argv.end_date.value

(* C19 as stated: with explicit start and end dates and start >= end the   *)
(* run fails at once: no country is processed, no remote request is made   *)
(* and no file is written.                                                 *)
C19_EmptyExplicitRangeFailsTheRun ==
    EmptyExplicitRange =>
        /\ pc \in {"get_api_key", "get_countries", "get_date_range", "exit"}
        /\ \A k \in 1..Len(log) : log[k].kind = "exit"
        /\ files = NoFiles

---------------------------------------------------------------------------
\* get_date_range has returned a range to main
GetDateRangeReturned == pc = "main_loop"

(* C20: get_date_range returns a range only from a parseable --start-date  *)
(* (start = that date, end = --end-date when parseable and now otherwise,  *)
(* whatever --years says) or, without a start date, from a positive        *)
(* --years (start = now less 365 days per year, end = now); without a      *)
(* start date and with --years absent, zero or negative it exits and       *)
(* returns nothing.                                                        *)
C20_DateRangeFromStartDateOrYears ==
    LET a == argv
        no_years == a.years.kind = "none" \/ a.years.value <= 0
    IN  /\ GetDateRangeReturned =>
              \/ /\ a.start_date.kind = "date"
                 /\ start_date = a.start_date.value
                 /\ end_date = IF a.end_date.kind = "date"
                               THEN a.end_date.value ELSE now
              \/ /\ a.start_date.kind # "date"
                 /\ a.years.kind = "int"
                 /\ a.years.value > 0
                 /\ start_date = now - a.years.value * DaysPerYear * HoursPerDay
                 /\ end_date = now
        /\ (a.start_date.kind = "none" /\ no_years) =>
              /\ ~GetDateRangeReturned
              /\ (GetCountriesReturned /\ pc # "get_date_range")
                    => Exited("get_date_range")

\* --start-date and a positive --years together: the range starts at the
\* start date and, with no --end-date, ends now
C20_Witness ==
    /\ GetDateRangeReturned
    /\ argv.start_date.kind = "date"
    /\ argv.end_date.kind = "none"
    /\ argv.years.kind = "int"
    /\ argv.years.value = MaxYears
    /\ start_date = argv.start_date.value
    /\ end_date = now
    /\ start_date # now - MaxYears * DaysPerYear * HoursPerDay

---------------------------------------------------------------------------
(* C21: the combined metrics file is written exactly when combined output  *)
(* was requested and more than one country yielded data.                   *)

\* The countries of the run, by position, one of whose requests returned data
YieldedData == {i \in 1..Len(countries) : SomeData(i)}

CombinedMetricsFilename == <<"combined", "price_metrics", CombinedSuffix>>

\* C21 as claimed: at the normal end of a run the combined metrics file
\* exists exactly when combined output was requested and more than one
\* country yielded data; it is absent when only one country produced data.
C21_CombinedIffSeveralYieldedDataAsClaimed ==
    pc = "done" =>
        ((CombinedMetricsFilename \in DOMAIN files)
            <=> (create_combined /\ Cardinality(YieldedData) > 1))

\* C21 as the code has it: the combined metrics file is never written unless
\* combined output was requested, more than one accepted country code is in
\* the run and at least one of them yielded data; and at the normal end of
\* the run it exists exactly in that case, also when only one country
\* produced data, its content being the metrics of the countries that did.
C21_CombinedIffSeveralRequestedAndSomeData ==
    /\ (CombinedMetricsFilename \in DOMAIN files) =>
           /\ create_combined
           /\ Len(countries) > 1
           /\ YieldedData # {}
           /\ files[CombinedMetricsFilename] = Concat(all_metrics)
    /\ pc = "done" =>
           ((CombinedMetricsFilename \in DOMAIN files)
               <=> (create_combined /\ Len(countries) > 1 /\ YieldedData # {}))

\* A run of two countries ended with a combined metrics file although only
\* one of them produced data
C21_Witness ==
    /\ pc = "done"
    /\ Len(countries) = 2
    /\ Cardinality(YieldedData) = 1
    /\ CombinedMetricsFilename \in DOMAIN files
    /\ Len(files[CombinedMetricsFilename].rows) > 0

---------------------------------------------------------------------------
(* C26: calculate_daily_metrics leaves the series passed to it unchanged,  *)
(* so the raw series exported after the aggregation is the series that     *)
(* went into it.                                                           *)

\* C26 as claimed: the step of calculate_daily_metrics leaves the caller's
\* series as it was, same columns and same values.
C26_AggregationLeavesSeriesUnchangedAsClaimed ==
    [][pc = "metrics" => df' = df]_vars

\* The row without its date field
WithoutDate(r) == [r EXCEPT !.date = 0]

\* C26 as the code has it: calculate_daily_metrics adds the column `date`
\* (the calendar date of each timestamp as rendered) to the non-empty series
\* passed to it and changes nothing else: the other columns, the rows, their
\* order and their other values are the same; and the raw file written after
\* the aggregation is that series with the added column.
C26_AggregationAddsDateColumnOnly ==
    [][/\ (pc = "metrics" /\ ~IsEmpty(df)) =>
              /\ "date" \notin df.cols
              /\ df'.cols = df.cols \cup {"date"}
              /\ Len(df'.rows) = Len(df.rows)
              /\ \A k \in 1..Len(df.rows) :
                    /\ WithoutDate(df'.rows[k]) = WithoutDate(df.rows[k])
                    /\ df'.rows[k].date = WallClockDate(df.rows[k])
       /\ (pc = "export_raw" /\ pc' = "collect") =>
              /\ files'[RawFilename(countries[idx])] = df
              /\ "date" \in df.cols
      ]_vars

\* A raw file was written after the aggregation and has the date column
C26_Witness ==
    /\ pc = "collect"
    /\ ~IsEmpty(df)
    /\ RawFilename(countries[idx]) \in DOMAIN files
    /\ files[RawFilename(countries[idx])] = df
    /\ "date" \in df.cols
    /\ \E k \in 1..Len(df.rows) : df.rows[k].date # 0

---------------------------------------------------------------------------
(* C29: for a chunk span of at least one day retrieve_data_in_chunks       *)
(* terminates whatever the requests return, after exactly                  *)
(* ceil((end - start) / chunk span) requests when start < end, the start   *)
(* of the sub-interval strictly increasing at every iteration.             *)

Ceil(a, b) == (a + b - 1) \div b

\* The number of requests of a range: none when it is empty
ChunkCount ==
    IF start_date < end_date
    THEN Ceil(end_date - start_date, chunk_days * HoursPerDay)
    ELSE 0

\* Every request so far is for a sub-interval that starts after the one
\* before it and ends after it starts, and the loop's next start is after
\* the start of the last request
StartsIncrease ==
    LET reqs == Requests(1)
    IN  /\ \A k \in 1..Len(reqs) : reqs[k].start < reqs[k].end
        /\ \A k \in 1..(Len(reqs) - 1) : reqs[k].start < reqs[k + 1].start
        /\ reqs # <<>> => reqs[Len(reqs)].start < current_start

\* C29: the call returns in every run; it never issues more than
\* ceil((end - start) / chunk span) requests and has issued exactly that
\* many when it returns (none for an empty range), whatever each request
\* returned; and the start of the sub-interval strictly increases.
C29_ChunkLoopTerminatesAfterCeilRequests ==
    /\ <>(pc = "returned")
    /\ [](/\ chunk_days >= 1
          /\ Len(Requests(1)) <= ChunkCount
          /\ pc = "returned" => Len(Requests(1)) = ChunkCount
          /\ StartsIncrease)

\* A call over a range that is not a multiple of the chunk span has
\* returned after several requests, one of which failed and one of which
\* returned nothing
C29_Witness ==
    /\ pc = "returned"
    /\ (end_date - start_date) % (chunk_days * HoursPerDay) # 0
    /\ Len(Requests(1)) = ChunkCount
    /\ ChunkCount >= 3
    /\ RequestFailed(1, {"error", "transient"})
    /\ RequestFailed(1, {"nodata"})

---------------------------------------------------------------------------
(* C28: the runner starts the retriever only after the answer 'y' or 'Y'   *)
(* to the confirmation prompt; after any other answer it ends with no      *)
(* request made and no file written; and it prints the footer only after   *)
(* the retriever has returned.                                             *)

\* The positions of the retriever's main
RetrieverPositions ==
    {"get_api_key", "get_countries", "get_date_range", "main_loop", "chunk",
     "sleep", "process", "metrics", "export_metrics", "export_raw", "collect",
     "combine_metrics", "combine_raw", "done", "aborted", "exit"}

\* The positions in the log of the events of the given kinds
Positions(kinds) == {k \in 1..Len(log) : log[k].kind \in kinds}

\* Something the retriever did: a request, a pacing delay, a written or
\* failed file, a skipped country, or an exit of one of its functions
RetrieverActed ==
    \/ pc \in RetrieverPositions
    \/ files # NoFiles
    \/ \E k \in 1..Len(log) :
          \/ log[k].kind \in {"request", "sleep", "skipped", "metrics_written",
                              "raw_written", "export_failed"}
          \/ log[k].kind = "exit" /\ log[k].outcome \in {"get_api_key",
                                                         "get_date_range"}

\* C28: whatever the retriever did, it did after a prompt answered 'y' or
\* 'Y'; a prompt answered otherwise ends the runner at once with no request
\* in the log and no file; and the footer is printed in the step that
\* follows the return of the retriever's main (normal, or after its handler
\* caught an exception), never after a sys.exit inside it.
C28_RetrieverRunsOnlyAfterConfirmation ==
    /\ [](/\ Cardinality(Positions({"prompt"})) <= 1
          /\ RetrieverActed =>
                /\ Positions({"prompt"}) # {}
                /\ \A k \in Positions({"prompt"}) :
                      /\ log[k].outcome \in {"y", "Y"}
                      /\ \A j \in 1..(k - 1) : log[j].kind \notin
                            {"request", "sleep", "skipped", "metrics_written",
                             "raw_written", "export_failed"}
          /\ \A k \in Positions({"prompt"}) :
                log[k].outcome \notin {"y", "Y"} =>
                    /\ pc = "runner_returned"
                    /\ k = Len(log)
                    /\ Positions({"request"}) = {}
                    /\ files = NoFiles
          /\ \A k \in Positions({"footer"}) :
                /\ k = Len(log)
                /\ pc = "runner_returned"
                /\ Positions({"prompt"}) # {}
                /\ Positions({"exit"}) = {})
    /\ [][/\ Positions({"footer"})' # Positions({"footer"}) =>
                pc \in {"done", "aborted"}
          /\ (pc \notin RetrieverPositions /\ pc' \in RetrieverPositions) =>
                /\ pc = "prompt"
                /\ pc' = "get_api_key"
                /\ log'[Len(log')].outcome \in {"y", "Y"}]_vars

\* The answer was 'Y', the retriever made requests, wrote files and
\* returned, and the footer was printed
C28_Witness ==
    /\ pc = "runner_returned"
    /\ \E k \in Positions({"prompt"}) : log[k].outcome = "Y"
    /\ Positions({"request"}) # {}
    /\ files # NoFiles
    /\ Positions({"footer"}) = {Len(log)}

---------------------------------------------------------------------------
(* C22: in analyze_extreme_prices the negative-price events are exactly    *)
(* the observations with price < 0, and their number plus the number of    *)
(* observations with price >= 0 is the length of the series.               *)

\* The positions of the prepared series
Observations == 1..Len(df.rows)

\* C22: after analyze_extreme_prices has returned, negative_prices holds
\* the observations with a price below 0 and no other, each once and in the
\* order of the series, and their number plus the number of observations
\* with a price of 0 or more is the length of the series.
C22_NegativeEventsAreThePricesBelowZero ==
    (analysis.view = "extreme" /\ ~analysis.raised) =>
        LET negative == analysis.negative_prices
        IN  /\ RowSet(negative) = {r \in RowSet(df.rows) : r.price < 0}
            /\ \A i, j \in 1..Len(negative) :
                  i < j => negative[i].datetime < negative[j].datetime
            /\ Len(negative)
                 + Cardinality({k \in Observations : df.rows[k].price >= 0})
                 = Len(df.rows)

\* The view was computed for a series with a negative, a zero and a
\* positive price
C22_Witness ==
    /\ analysis.view = "extreme"
    /\ ~analysis.raised
    /\ Len(analysis.negative_prices) = 1
    /\ \E k \in Observations : df.rows[k].price = 0
    /\ \E k \in Observations : df.rows[k].price > 0

---------------------------------------------------------------------------
(* C23: in calculate_arbitrage_potential the daily spread of every         *)
(* calendar day with an observation is the day's maximum minus its minimum,*)
(* is >= 0, and is 0 exactly when all the day's prices are the same.       *)

\* The prices observed on date d
PricesOn(d) == {df.rows[k].price : k \in {j \in Observations : df.rows[j].date = d}}

\* C23: daily_stats has one row for each date of the series and no other;
\* its daily_spread is the largest minus the smallest price of that date,
\* is never negative, and is 0 exactly when the date has one price only.
C23_DailySpreadIsMaxMinusMin ==
    analysis.view = "arbitrage" =>
        LET stats == analysis.daily_stats
        IN  /\ {stats[k].date : k \in 1..Len(stats)} = KeysOf(df.rows, "date")
            /\ Len(stats) = Cardinality(KeysOf(df.rows, "date"))
            /\ \A k \in 1..Len(stats) :
                  LET P == PricesOn(stats[k].date)
                  IN  /\ P # {}
                      /\ \E lo, hi \in P :
                            /\ \A p \in P : lo <= p /\ p <= hi
                            /\ stats[k].daily_spread = hi - lo
                      /\ stats[k].daily_spread >= 0
                      /\ stats[k].daily_spread = 0 <=> Cardinality(P) = 1

\* The view was computed for a series with a date of two equal prices and
\* another date
C23_Witness ==
    /\ analysis.view = "arbitrage"
    /\ Len(analysis.daily_stats) = 2
    /\ \E k \in 1..Len(analysis.daily_stats) :
          /\ analysis.daily_stats[k].daily_spread = 0
          /\ Len(RowsWith(df.rows, "date", analysis.daily_stats[k].date)) = 2

---------------------------------------------------------------------------
(* C24: in analyze_solar_optimization a day on which the solar window      *)
(* (hours 11-15) or the evening window (hours 17-21) has no observation is *)
(* counted neither as favorable nor in the total of compared days, and a   *)
(* day is favorable exactly when its evening mean exceeds its solar mean.  *)

\* The observations of date d whose hour is one of `hours`
Window(d, hours) ==
    {k \in Observations : df.rows[k].date = d /\ df.rows[k].hour \in hours}

\* Both windows of date d have an observation
Compared(d) == Window(d, 11..15) # {} /\ Window(d, 17..21) # {}

\* The mean of the evening window of date d exceeds that of its solar window
Favorable(d) ==
    /\ Compared(d)
    /\ SumAt(df.rows, Window(d, 17..21)) * Cardinality(Window(d, 11..15))
         > SumAt(df.rows, Window(d, 11..15)) * Cardinality(Window(d, 17..21))

\* C24: the total of compared days is the number of dates with an
\* observation in both windows, and the number of favorable days is the
\* number of those dates whose evening-window mean exceeds the solar-window
\* mean; a date without an observation in one of the windows is in neither.
C24_DaysWithoutAWindowAreExcluded ==
    (analysis.view = "solar" /\ ~analysis.raised) =>
        LET dates == KeysOf(df.rows, "date")
        IN  /\ analysis.total_days = Cardinality({d \in dates : Compared(d)})
            /\ analysis.profitable_days = Cardinality({d \in dates : Favorable(d)})
            /\ analysis.profitable_days <= analysis.total_days

\* The view was computed for a series with a favorable date and a date
\* without an observation in one of the windows
C24_Witness ==
    /\ analysis.view = "solar"
    /\ ~analysis.raised
    /\ analysis.profitable_days = 1
    /\ analysis.total_days = 1
    /\ \E d \in KeysOf(df.rows, "date") :
          /\ ~Compared(d)
          /\ Window(d, 11..15) \cup Window(d, 17..21) # {}

---------------------------------------------------------------------------
(* C25: every view of the pattern analysis raises an error for the empty   *)
(* series; none returns an empty or zero-valued result.                    *)

\* C25: a view that was computed for the empty series has raised an error.
C25_EveryViewRaisesOnTheEmptySeries ==
    (pc = "analysed" /\ IsEmpty(df)) => analysis.raised

---------------------------------------------------------------------------
(* C27: the hour, month and day-of-week keys of an observation are those   *)
(* of its timestamp as the file renders it, the rendering that gave the    *)
(* date column, so that hour and date refer to the same wall clock.        *)

\* The hours since day 0 on the wall clock that the file's k-th row shows
WallClock(k) ==
    files[AnalysedFile].rows[k].datetime + files[AnalysedFile].rows[k].offset

\* C27: every prepared observation has the hour, the day of the week and
\* the month of its timestamp as rendered in the file, and its date is the
\* date of that same rendering.
C27_KeysAreThoseOfTheRenderedTimestamp ==
    pc \in {"prepared", "analysed"} =>
        \A k \in Observations :
            /\ df.rows[k].hour = WallClock(k) % HoursPerDay
            /\ df.rows[k].day_of_week = DayOfWeek(WallClock(k) \div HoursPerDay)
            /\ df.rows[k].month = MonthOf(WallClock(k) \div HoursPerDay)
            /\ df.rows[k].date = WallClock(k) \div HoursPerDay

---------------------------------------------------------------------------
(* C30: for every non-empty series analyze_weekday_patterns returns        *)
(* statistics whose 'Weekend' row is computed from the Saturday and Sunday *)
(* observations and whose 'Weekday' row from the others, also when the     *)
(* series has observations of one of the two kinds only.                   *)

\* C30: the view computed for a non-empty series has returned, and each of
\* its rows is labelled 'Weekend' and computed from the observations with
\* is_weekend, or labelled 'Weekday' and computed from the others.
C30_WeekdayStatsForEveryNonEmptySeries ==
    (analysis.view = "weekday" /\ ~IsEmpty(df)) =>
        /\ ~analysis.raised
        /\ \A k \in 1..Len(analysis.weekday_stats) :
              LET row == analysis.weekday_stats[k]
                  part == RowsWith(df.rows, "is_weekend", row.label = "Weekend")
              IN  /\ row.label \in {"Weekday", "Weekend"}
                  /\ part # <<>>
                  /\ row.stats = Stats3(part)

=============================================================================
